---- MODULE Spec2Model ----
(***************************************************************************)
(* AppBundle operator: the reconciliation engine of                        *)
(* AppBundleReconciler (Reconcile, reconcileGroup, reconcileComponent,     *)
(* reconcileComponentWithPorch, waitForResourceReady, finalizeAppBundle,   *)
(* updateStatusWithError) as a state machine over one AppBundle and the    *)
(* cluster objects it manages.                                             *)
(***************************************************************************)
EXTENDS Integers, Sequences, FiniteSets, TLC

VARIABLES
    spec,          \* appBundle.Spec.Groups: the groups in input order
    bundle,        \* the AppBundle object as persisted by the API server
    objs,          \* cluster objects produced from literal templates
    pv,            \* the PackageVariant request of the packaged component
    pc,            \* position of the worker inside Reconcile
    appBundle,     \* the worker's in-memory copy of the AppBundle
    sortedGroups,  \* Reconcile / finalizeAppBundle: sortedGroups
    gi,            \* index into sortedGroups
    sortedComponents, \* reconcileGroup / finalizeAppBundle: sortedComponents
    ci,            \* index into sortedComponents
    groupStatus,   \* reconcileGroup: groupStatus under construction
    obj,           \* reconcileComponent: the object being applied / waited on
    polls,         \* polls already made by the running wait loop
    pending,       \* error carried to updateStatusWithError
    result,        \* what the last finished pass returned
    stale,         \* the persisted AppBundle is newer than the worker's copy
    opLog,         \* cluster calls issued for components in the current pass
    readyTrue,     \* components whose readiness wait returned ready in this pass
    failedAt,      \* Len(opLog) when the first component of this pass failed, or -1
    wIn,           \* sync-wave computation: the inputs
    wOut,          \* sync-wave computation: the outputs
    dIn,           \* readiness predicate: the Deployment it is applied to
    dOut,          \* readiness predicate: what it returned
    gIn,           \* package pipeline: the resources of the package
    gOut,          \* package pipeline: the resources after the mutators
    sIn,           \* sort.Slice: the Order values of the slice, in input order
    sOut,          \* sort.Slice: the input positions in the order it produced
    rIn,           \* resource discovery: what the cluster holds for the package
    rOut,          \* resource discovery: the resources to monitor it returned
    pSpec,         \* two bundles: the resource the one component of each names
    store,         \* two bundles: the cluster objects their components name
    wpc,           \* two bundles: the position of the pass of each
    wphase,        \* two bundles: the phase each pass persisted
    wcall          \* two bundles: the cluster calls the pass of each issued

vars == <<spec, bundle, objs, pv, pc, appBundle, sortedGroups, gi,
          sortedComponents, ci, groupStatus, obj, polls, pending, result,
          stale, opLog, readyTrue, failedAt, wIn, wOut, dIn, dOut, gIn, gOut,
          sIn, sOut, rIn, rOut, pSpec, store, wpc, wphase, wcall>>

engineVars == <<spec, bundle, objs, pv, pc, appBundle, sortedGroups, gi,
                sortedComponents, ci, groupStatus, obj, polls, pending, result,
                stale, opLog, readyTrue, failedAt>>

waveVars == <<wIn, wOut>>

readyVars == <<dIn, dOut>>

gateVars == <<gIn, gOut>>

sortVars == <<sIn, sOut>>

discoverVars == <<rIn, rOut>>

pairVars == <<pSpec, store, wpc, wphase, wcall>>

\* the variables of the computations checked on their own
funcVars == <<wIn, wOut, dIn, dOut, gIn, gOut,
          sIn, sOut, rIn, rOut, pSpec, store, wpc, wphase, wcall>>

-----------------------------------------------------------------------------
(* Bounds of the model *)

\* polls a wait loop makes before its timeout expires (timeout / pollInterval)
MaxPolls == 2
\* largest metadata.generation the bundle reaches through edits of its spec
MaxGeneration == 2

\* the largest number of resources in the package
MaxResources == 2

\* the resource version up to which other actors write to an object
MaxVersion == 3

\* the largest Order of an element of a sorted slice
MaxSortOrder == 1

\* sort.Slice: the longest slice it sorts by insertion alone
MaxInsertion == 12
\* largest group Order used when sync waves are compared
MaxWaveGroupOrder == 2

\* group and component Order values of the bundles deployed
Orders == {0, 1}
\* component Order values for which sync waves are compared
WaveCompOrders == {0, 1, 49, 50, 51, 99, 100, 101}

-----------------------------------------------------------------------------
(* Sync waves *)

WaveBase == 100
WaitOffset == 50

\* baseSyncWave := group.Order * 100
BaseSyncWaveTens(groupOrder) == groupOrder * 10
BaseSyncWave(groupOrder) == groupOrder * WaveBase

\* syncWave := baseSyncWave + component.Order
SyncWave(groupOrder, compOrder) == BaseSyncWave(groupOrder) + compOrder

\* waitSyncWave := baseSyncWave + 50
WaitSyncWaveEarly(groupOrder) == BaseSyncWave(groupOrder) + 49
WaitSyncWave(groupOrder) == BaseSyncWave(groupOrder) + WaitOffset

\* strconv.Itoa for a non-negative int: the decimal digits, most significant first
RECURSIVE Itoa(_)
Itoa(n) == IF n < 10 THEN <<n>> ELSE Append(Itoa(n \div 10), n % 10)

-----------------------------------------------------------------------------
(* The bundle and its components *)

\* appBundle.Namespace
BundleNamespace == "apps"

\* What a component carries: a template that is not valid JSON ("bad"), a
\* Namespace whose manifest names no namespace ("nsobj"), a Deployment whose
\* manifest names no namespace ("dep"), a Job in another namespace ("xjob"),
\* a Porch package reference without template ("pkg"), a CronJob, a kind
\* waitForResourceReady has no case for ("cron"), or neither a template nor a
\* package reference ("none").
Payloads == {"bad", "nsobj", "dep", "xjob", "pkg", "pkgtpl", "cron", "none"}

\* component.PorchPackageRef != nil
IsPackaged(p) == p \in {"pkg", "pkgtpl"}

\* reconcileComponentWithPorch: a package reference with a template that
\* unmarshals, which names the resource to monitor
MonitorsTemplate(p) == p = "pkgtpl"

\* len(component.Template.Raw) > 0
HasTemplateUnchecked(p) == p \notin {"pkg", "pkgtpl"}
HasTemplate(p) == p \in {"bad", "nsobj", "dep", "xjob", "cron"}

\* json.Unmarshal(component.Template.Raw, obj) returns no error
Parses(p) == p \in {"nsobj", "dep", "xjob", "cron"}

\* obj.GetKind() of the parsed template
Kind(p) ==
    CASE p = "nsobj" -> "Namespace"
      [] p = "dep" -> "Deployment"
      [] p = "xjob" -> "Job"
      [] p = "cron" -> "CronJob"
      [] OTHER -> ""

\* obj.GetNamespace() of the parsed template, before defaulting
ManifestNamespace(p) ==
    CASE p = "xjob" -> "other"
      [] OTHER -> ""

\* obj.GetLabels() of the parsed template under the three tracking keys: the
\* Deployment manifest gives them values of its own
ManifestLabels(p) ==
    CASE p = "dep" -> [appbundle |-> "theirs", group |-> "theirs", component |-> "theirs"]
      [] OTHER -> [appbundle |-> "", group |-> "", component |-> ""]

\* appBundle.Name
BundleName == "bundle"

\* kinds the API server stores without a namespace
ClusterScopedKinds == {"Namespace", "ClusterRole", "ClusterRoleBinding"}

\* the cluster objects the templates name, one per parseable payload
ObjIds == {p \in Payloads : Parses(p)}

EmptyStatus ==
    [phase |-> "", message |-> <<>>, groupStatuses |-> <<>>,
     observedGeneration |-> 0, ready |-> "none"]

\* the tracking labels of an object nobody has labelled
NoLabels == [appbundle |-> "", group |-> "", component |-> ""]

NoObj ==
    [id |-> "none", kind |-> "", namespace |-> "", owner |-> FALSE, wave |-> <<>>,
     labels |-> NoLabels]

-----------------------------------------------------------------------------
(* sort.Slice(x, less): pdqsort over the positions of x.  A slice of at most  *)
(* MaxInsertion elements is sorted by insertion, which moves an element left *)
(* while less(element, predecessor).  A slice of MaxInsertion + 1 elements   *)
(* takes one round of pivot selection and partition, and its two sides,      *)
(* shorter than the slice, are sorted by insertion.                          *)
(* less[x, y] compares the elements at the input positions x and y.          *)


\* the sorted positions t with position x inserted
InsertLess(t, x, less) ==
    LET p == CHOOSE q \in 0..Len(t) :
                 /\ \A r \in (q + 1)..Len(t) : less[x, t[r]]
                 /\ (q = 0 \/ ~less[x, t[q]])
    IN  SubSeq(t, 1, p) \o <<x>> \o SubSeq(t, p + 1, Len(t))

\* insertion sort of the positions t
RECURSIVE InsertionSort(_, _)
InsertionSort(t, less) ==
    IF t = <<>> THEN <<>>
    ELSE InsertLess(InsertionSort(SubSeq(t, 1, Len(t) - 1), less), t[Len(t)], less)

\* data.Swap(x, y)
Swap(t, x, y) ==
    [i \in 1..Len(t) |-> IF i = x THEN t[y] ELSE IF i = y THEN t[x] ELSE t[i]]

\* the median of the elements at the indexes x, y, z of t and the number of
\* exchanges made to find it
Median(t, x, y, z, less) ==
    LET s1 == IF less[t[y], t[x]] THEN <<y, x, 1>> ELSE <<x, y, 0>>
        s2 == IF less[t[z], t[s1[2]]] THEN <<z, s1[2], s1[3] + 1>>
                                      ELSE <<s1[2], z, s1[3]>>
        s3 == IF less[t[s2[1]], t[s1[1]]] THEN <<s2[1], s1[1], s2[3] + 1>>
                                          ELSE <<s1[1], s2[1], s2[3]>>
    IN  [pivot |-> s3[2], swaps |-> s3[3]]

\* the pivot of a slice of 8 to 49 elements: the median of the elements a
\* quarter, a half and three quarters into it (indexes from 1)
ChoosePivot(t, less) ==
    LET q == Len(t) \div 4
    IN  Median(t, 1 + q, 1 + q * 2, 1 + q * 3, less)

\* the slice is already in order: no element is less than its predecessor
InOrder(t, less) == \A i \in 2..Len(t) : ~less[t[i], t[i - 1]]

\* the first index from i up to j whose element is not less than the pivot at
\* index 1, or j + 1
ScanUp(t, i, j, less) ==
    IF i > j THEN i
    ELSE CHOOSE k \in i..(j + 1) :
             /\ \A r \in i..(k - 1) : less[t[r], t[1]]
             /\ (k = j + 1 \/ ~less[t[k], t[1]])

\* the last index from j down to i whose element is less than the pivot at
\* index 1, or i - 1
ScanDown(t, i, j, less) ==
    IF i > j THEN j
    ELSE CHOOSE k \in (i - 1)..j :
             /\ \A r \in (k + 1)..j : ~less[t[r], t[1]]
             /\ (k = i - 1 \/ less[t[k], t[1]])

\* the exchanges of partition once the pivot is at index 1
RECURSIVE PartitionLoop(_, _, _, _)
PartitionLoop(t, i, j, less) ==
    LET i2 == ScanUp(t, i, j, less)
        j2 == ScanDown(t, i2, j, less)
    IN  IF i2 > j2 THEN [t |-> t, mid |-> j2]
        ELSE PartitionLoop(Swap(t, i2, j2), i2 + 1, j2 - 1, less)

\* partition: elements less than the pivot before it, the others after it
Partition(t, pivot, less) ==
    LET r == PartitionLoop(Swap(t, 1, pivot), 2, Len(t), less)
    IN  [t |-> Swap(r.t, 1, r.mid), mid |-> r.mid]

\* pdqsort of the positions t, Len(t) <= MaxInsertion + 1
PdqSort(t, less) ==
    IF Len(t) <= MaxInsertion THEN InsertionSort(t, less)
    ELSE LET c == ChoosePivot(t, less)
         IN  IF c.swaps = 0 /\ InOrder(t, less) THEN t
             ELSE LET r == Partition(t, c.pivot, less)
                  IN  InsertionSort(SubSeq(r.t, 1, r.mid - 1), less)
                          \o <<r.t[r.mid]>>
                          \o InsertionSort(SubSeq(r.t, r.mid + 1, Len(t)), less)

SortSlice(s, less) ==
    LET sorted == PdqSort([i \in 1..Len(s) |-> i], less)
    IN  [i \in 1..Len(s) |-> s[sorted[i]]]

\* Reconcile: sortedGroups[i].Order < sortedGroups[j].Order
GroupLessDescending(a, b) == a.order > b.order
GroupLess(a, b) == a.order < b.order

\* reconcileGroup: sortedComponents[i].Order < sortedComponents[j].Order
ComponentLessDescending(a, b) == a.order > b.order
ComponentLess(a, b) == a.order < b.order

\* finalizeAppBundle: sortedGroups[i].Order > sortedGroups[j].Order
FinalizeGroupLess(a, b) == a.order > b.order

\* finalizeAppBundle: sortedComponents[i].Order > sortedComponents[j].Order
FinalizeComponentLessAscending(a, b) == a.order < b.order
FinalizeComponentLess(a, b) == a.order > b.order

\* the groups of the spec, each with its input position as identity
GroupSlice == [g \in 1..Len(spec) |-> [id |-> g, name |-> spec[g].name, order |-> spec[g].order]]

\* the groups in the order Reconcile deploys them
SortedForDeploy ==
    SortSlice(GroupSlice, [i \in 1..Len(spec), j \in 1..Len(spec) |->
                              GroupLess(GroupSlice[i], GroupSlice[j])])

\* the groups in the order finalizeAppBundle visits them
SortedForFinalize ==
    SortSlice(GroupSlice, [i \in 1..Len(spec), j \in 1..Len(spec) |->
                              FinalizeGroupLess(GroupSlice[i], GroupSlice[j])])

\* the components of group g, each with its input position as identity
ComponentSlice(g) ==
    [c \in 1..Len(spec[g].comps) |->
        [id |-> c, name |-> spec[g].comps[c].name, order |-> spec[g].comps[c].order,
         payload |-> spec[g].comps[c].payload]]

\* the components of group g in the order reconcileGroup deploys them
ComponentsForDeploy(g) ==
    LET cs == ComponentSlice(g)
    IN  SortSlice(cs, [i \in 1..Len(cs), j \in 1..Len(cs) |-> ComponentLess(cs[i], cs[j])])

\* the components of group g in the order finalizeAppBundle visits them
ComponentsForFinalize(g) ==
    LET cs == ComponentSlice(g)
    IN  SortSlice(cs, [i \in 1..Len(cs), j \in 1..Len(cs) |->
                          FinalizeComponentLess(cs[i], cs[j])])

-----------------------------------------------------------------------------
(* reconcileComponent: the object built from a template *)

\* obj.GetNamespace() after "Set namespace if not specified"
ResolvedNamespace(p) ==
    IF ManifestNamespace(p) = "" /\ BundleNamespace # ""
    THEN BundleNamespace
    ELSE ManifestNamespace(p)

\* "Set owner reference only if the resource is in the same namespace as the
\* AppBundle": the guard of the SetControllerReference call, which succeeds
\* for the templates of this model (none names a controller of its own)
OwnerReferenceSet(ns) == ns # "" /\ ns = BundleNamespace

\* "Add labels for tracking": the labels of the template with the three
\* tracking keys set to the names of the bundle, the group and the component
TrackingLabelsKeep(labels, g, c) ==
    [appbundle |-> IF labels.appbundle = "" THEN BundleName ELSE labels.appbundle,
     group |-> IF labels.group = "" THEN g ELSE labels.group,
     component |-> IF labels.component = "" THEN c ELSE labels.component]
TrackingLabels(labels, g, c) ==
    [labels EXCEPT !.appbundle = BundleName, !.group = g, !.component = c]

\* the in-memory object after annotation, namespace defaulting and owner policy
BuildObject(group, comp) ==
    [id |-> comp.payload,
     kind |-> Kind(comp.payload),
     namespace |-> ResolvedNamespace(comp.payload),
     owner |-> OwnerReferenceSet(ResolvedNamespace(comp.payload)),
     wave |-> Itoa(SyncWave(group.order, comp.order)),
     labels |-> TrackingLabels(ManifestLabels(comp.payload), group.name, comp.name)]

\* waitForResourceReady: immediatelyReadyKinds
ImmediatelyReadyKinds ==
    {"Namespace", "ConfigMap", "Secret", "Service", "PersistentVolumeClaim",
     "ServiceAccount", "Role", "RoleBinding", "ClusterRole",
     "ClusterRoleBinding", "Ingress", "NetworkPolicy"}

\* a field of a fetched object as unstructured.NestedInt64 sees it: absent,
\* present with a value that is not an int64, or present with an int64
FieldAbsent == [found |-> FALSE, typed |-> TRUE, value |-> 0]
FieldMalformed == [found |-> TRUE, typed |-> FALSE, value |-> 0]
FieldOf(n) == [found |-> TRUE, typed |-> TRUE, value |-> n]

\* the value isDeploymentReady uses for a field after "if !found"
ValueOr(f, default) == IF f.found THEN f.value ELSE default

\* isDeploymentReady(obj): (ready, err) for the Deployment d, the four fields
\* read in the order of the code, an error returned at the first that is not
\* an int64
isDeploymentReadyIgnoresAvailable(d) ==
    IF \E f \in {d.replicas, d.readyReplicas, d.updatedReplicas, d.availableReplicas} :
          ~f.typed
    THEN [ready |-> FALSE, err |-> TRUE]
    ELSE LET replicas == ValueOr(d.replicas, 1)
         IN  [ready |-> /\ ValueOr(d.readyReplicas, 0) = replicas
                        /\ ValueOr(d.updatedReplicas, 0) = replicas,
              err |-> FALSE]
isDeploymentReady(d) ==
    IF ~d.replicas.typed THEN [ready |-> FALSE, err |-> TRUE]
    ELSE IF ~d.readyReplicas.typed THEN [ready |-> FALSE, err |-> TRUE]
    ELSE IF ~d.updatedReplicas.typed THEN [ready |-> FALSE, err |-> TRUE]
    ELSE IF ~d.availableReplicas.typed THEN [ready |-> FALSE, err |-> TRUE]
    ELSE LET replicas == ValueOr(d.replicas, 1)
             readyReplicas == ValueOr(d.readyReplicas, 0)
             updatedReplicas == ValueOr(d.updatedReplicas, 0)
             availableReplicas == ValueOr(d.availableReplicas, 0)
         IN  [ready |-> /\ readyReplicas = replicas
                        /\ updatedReplicas = replicas
                        /\ availableReplicas = replicas,
              err |-> FALSE]

\* the Deployment of the engine's cluster: one replica by default, rolled out
\* ("ready") or with its replica not yet available
DeploymentOf(o) ==
    [replicas |-> FieldAbsent,
     readyReplicas |-> IF o.state = "ready" THEN FieldOf(1) ELSE FieldAbsent,
     updatedReplicas |-> FieldOf(1),
     availableReplicas |-> IF o.state = "ready" THEN FieldOf(1) ELSE FieldAbsent]

\* isDeploymentReady on the fetched object
IsDeploymentReady(o) == isDeploymentReady(DeploymentOf(o)).ready

\* the kinds the switch of the poll function has a case for
CheckedKinds == {"Deployment", "StatefulSet", "DaemonSet", "Job", "Pod"}

\* waitForResourceReady returns nil before the poll loop
ReturnsAtOnceUnknownKind(kind) == kind \notin CheckedKinds
ReturnsAtOnce(kind) == kind \in ImmediatelyReadyKinds

\* isJobComplete(obj) on status.conditions: (ready, err) at the first condition
\* that is Complete=True or Failed=True, (false, nil) when there is none
RECURSIVE isJobComplete(_)
isJobComplete(conditions) ==
    IF conditions = <<>> THEN [ready |-> FALSE, err |-> FALSE]
    ELSE LET condition == Head(conditions)
         IN  IF condition.type = "Complete" /\ condition.status = "True"
             THEN [ready |-> TRUE, err |-> FALSE]
             ELSE IF condition.type = "Failed" /\ condition.status = "True"
                  THEN [ready |-> FALSE, err |-> TRUE]
                  ELSE isJobComplete(Tail(conditions))

\* status.conditions of the Job of the engine's cluster, as the Job controller
\* writes them: none while it runs, Complete=True after the success criteria
\* are met, Failed=True after the failure target is reached
JobConditionsOf(o) ==
    CASE o.state = "ready" ->
            <<[type |-> "SuccessCriteriaMet", status |-> "True"],
              [type |-> "Complete", status |-> "True"]>>
      [] o.state = "failed" ->
            <<[type |-> "FailureTarget", status |-> "True"],
              [type |-> "Failed", status |-> "True"]>>
      [] OTHER -> <<>>

\* isJobComplete on the fetched object returns (true, nil)
IsJobComplete(o) == isJobComplete(JobConditionsOf(o)).ready

\* isJobComplete on the fetched object returns (false, "job failed")
IsJobFailed(o) == isJobComplete(JobConditionsOf(o)).err

\* one poll of waitForResourceReady on an object the Get returned
PollResultIgnoresFailed(kind, o) ==
    CASE kind = "Deployment" -> IF IsDeploymentReady(o) THEN "ready" ELSE "notready"
      [] kind = "Job" -> IF IsJobComplete(o) THEN "ready" ELSE "notready"
      [] OTHER -> "ready"
PollResult(kind, o) ==
    CASE kind = "Deployment" -> IF IsDeploymentReady(o) THEN "ready" ELSE "notready"
      [] kind = "Job" ->
            IF IsJobComplete(o) THEN "ready"
            ELSE IF IsJobFailed(o) THEN "fatal" ELSE "notready"
      [] OTHER -> "ready"

\* reconcileComponentWithPorch: component.PorchPackageRef.Namespace
PorchRefNamespace == ""

\* reconcileComponentWithPorch: pvNamespace
PvNamespace == IF PorchRefNamespace # "" THEN PorchRefNamespace ELSE "default"

-----------------------------------------------------------------------------
(* reconcileComponentWithPorch: the pipeline of the PackageVariant *)

\* the script of a resource that is not the wait Job
NoScript == [delay |-> FALSE, commands |-> <<>>]

\* buildWaitJobMutator: namespace
WaitJobNamespace == IF BundleNamespace = "" THEN "default" ELSE BundleNamespace

\* the kinds the Starlark script builds a roll-out wait for
RolloutKinds == {"Deployment", "StatefulSet", "DaemonSet"}

\* transform: target_namespace after the scan, the namespace of the first
\* resource that has one, None (the empty string here) when there is none
RECURSIVE ScanNamespace(_)
ScanNamespace(items) ==
    IF items = <<>> THEN ""
    ELSE IF Head(items).namespace # "" THEN Head(items).namespace
         ELSE ScanNamespace(Tail(items))

\* transform: specific_wait_commands after the scan, one "kubectl rollout
\* status" per Deployment, StatefulSet or DaemonSet with a name and a namespace
RECURSIVE SpecificWaitCommands(_)
SpecificWaitCommands(items) ==
    IF items = <<>> THEN <<>>
    ELSE LET resource == Head(items)
             rest == SpecificWaitCommands(Tail(items))
         IN  IF /\ resource.kind \in RolloutKinds
                /\ resource.name # <<>>
                /\ resource.namespace # ""
             THEN <<[kind |-> resource.kind, name |-> resource.name,
                     namespace |-> resource.namespace]>> \o rest
             ELSE rest

\* transform: wait_script, the roll-out waits joined or the fixed delay
WaitScript(items) ==
    IF SpecificWaitCommands(items) # <<>>
    THEN [delay |-> FALSE, commands |-> SpecificWaitCommands(items)]
    ELSE [delay |-> TRUE, commands |-> <<>>]

\* one of the four resources the script appends, m the mutator's arguments
GateResource(kind, name, ns, m, labels, script) ==
    [kind |-> kind, name |-> name, namespace |-> ns, wave |-> m.wave,
     labels |-> labels, gate |-> TRUE, script |-> script]

\* the Starlark script of buildWaitJobMutator applied to resource_list["items"]:
\* the ServiceAccount, the ClusterRole, the ClusterRoleBinding and the Job are
\* appended whatever the list holds
TransformOmitsGate(items, m) ==
    LET target == IF ScanNamespace(items) # "" THEN ScanNamespace(items) ELSE m.namespace
        bundleOnly == [appbundle |-> m.labels.appbundle, group |-> "", component |-> ""]
    IN  IF SpecificWaitCommands(items) = <<>> THEN items
        ELSE items \o
             <<GateResource("ServiceAccount", <<"appbundle-wait-reader">>, target, m,
                            bundleOnly, NoScript),
               GateResource("ClusterRole", <<"appbundle-wait-reader", target>>, "", m,
                            bundleOnly, NoScript),
               GateResource("ClusterRoleBinding", <<"appbundle-wait-reader", target>>, "",
                            m, bundleOnly, NoScript),
               GateResource("Job", <<"wait", m.labels.group, m.labels.component, m.suffix>>,
                            target, m, m.labels, WaitScript(items))>>
Transform(items, m) ==
    LET target == IF ScanNamespace(items) # "" THEN ScanNamespace(items) ELSE m.namespace
        bundleOnly == [appbundle |-> m.labels.appbundle, group |-> "", component |-> ""]
    IN  items \o
        <<GateResource("ServiceAccount", <<"appbundle-wait-reader">>, target, m,
                       bundleOnly, NoScript),
          GateResource("ClusterRole", <<"appbundle-wait-reader", target>>, "", m,
                       bundleOnly, NoScript),
          GateResource("ClusterRoleBinding", <<"appbundle-wait-reader", target>>, "",
                       m, bundleOnly, NoScript),
          GateResource("Job", <<"wait", m.labels.group, m.labels.component, m.suffix>>,
                       target, m, m.labels, WaitScript(items))>>

\* buildWaitJobMutator: the Starlark mutator with the arguments formatted into
\* its script, suffix being time.Now().Unix() % 100000
BuildWaitJobMutator(group, comp, syncWave, suffix) ==
    [image |-> "starlark", wave |-> syncWave, namespace |-> WaitJobNamespace,
     labels |-> [appbundle |-> BundleName, group |-> group.name,
                 component |-> comp.name],
     suffix |-> suffix]

\* reconcileComponentWithPorch, "Build mutators list"
Mutators(group, comp, suffix) ==
    <<[image |-> "set-annotations",
       wave |-> Itoa(SyncWave(group.order, comp.order)),
       namespace |-> "", labels |-> NoLabels, suffix |-> 0],
      [image |-> "set-labels", wave |-> <<>>, namespace |-> "",
       labels |-> [appbundle |-> BundleName, group |-> group.name,
                   component |-> comp.name],
       suffix |-> 0],
      BuildWaitJobMutator(group, comp, Itoa(WaitSyncWave(group.order)), suffix)>>

\* the images of the mutators, in pipeline order
MutatorImages(mutators) == [i \in 1..Len(mutators) |-> mutators[i].image]

\* one mutator of the pipeline run by Porch on the resources of the package
ApplyMutator(m, items) ==
    CASE m.image = "set-annotations" ->
            [i \in 1..Len(items) |-> [items[i] EXCEPT !.wave = m.wave]]
      [] m.image = "set-labels" ->
            [i \in 1..Len(items) |-> [items[i] EXCEPT !.labels = m.labels]]
      [] OTHER -> Transform(items, m)

\* the mutators run in the order of spec.pipeline.mutators
RECURSIVE RunPipeline(_, _)
RunPipeline(mutators, items) ==
    IF mutators = <<>> THEN items
    ELSE RunPipeline(Tail(mutators), ApplyMutator(Head(mutators), items))

-----------------------------------------------------------------------------
(* The worker's position *)

\* the group being processed
CurGroup == sortedGroups[gi]

\* the component being processed
CurComp == sortedComponents[ci]

Entry(op, owned) == [op |-> op, g |-> CurGroup.id, c |-> CurComp.id, owned |-> owned]

\* r.Update / r.Status().Update on the AppBundle succeed only against the
\* resourceVersion the worker holds; any call can also fail in transit
BundleWriteOutcomesUnversioned ==
    IF bundle.exists THEN {"ok", "error"} ELSE {"error"}
BundleWriteOutcomes ==
    IF bundle.exists /\ ~stale THEN {"ok", "error"} ELSE {"error"}

NewGroupStatus(g) ==
    [name |-> g, phase |-> "Deploying", message |-> <<>>, componentStatuses |-> <<>>]

\* reconcileGroup entry for sortedGroups[k] of the slice sg
BeginGroup(sg, k) ==
    /\ gi' = k
    /\ sortedComponents' = ComponentsForDeploy(sg[k].id)
    /\ ci' = 1
    /\ groupStatus' = NewGroupStatus(sg[k].id)

\* Reconcile returns
Return(b, r) ==
    /\ pc' = "idle"
    /\ result' = r
    /\ appBundle' = b
    /\ sortedGroups' = <<>>
    /\ gi' = 0
    /\ sortedComponents' = <<>>
    /\ ci' = 0
    /\ groupStatus' = NewGroupStatus(0)

\* Reconcile, "Deploy resources group by group"
EnterDeployKeepsStatuses(b) ==
    LET sg == SortedForDeploy
    IN  /\ pc' = "component"
        /\ appBundle' = [b EXCEPT !.status.phase = "Deploying"]
        /\ sortedGroups' = sg
        /\ BeginGroup(sg, 1)
        /\ UNCHANGED result
EnterDeploy(b) ==
    LET sg == SortedForDeploy
    IN  /\ pc' = "component"
        /\ appBundle' = [b EXCEPT !.status.phase = "Deploying",
                                  !.status.groupStatuses = <<>>]
        /\ sortedGroups' = sg
        /\ BeginGroup(sg, 1)
        /\ UNCHANGED result

\* finalizeAppBundle entry for sortedGroups[k] of the slice sg
BeginFinalizeGroup(sg, k) ==
    /\ gi' = k
    /\ sortedComponents' = ComponentsForFinalize(sg[k].id)
    /\ ci' = 1

\* Reconcile, "Run finalization logic"
EnterFinalize(b) ==
    LET sg == SortedForFinalize
    IN  /\ pc' = "finalize"
        /\ appBundle' = b
        /\ sortedGroups' = sg
        /\ BeginFinalizeGroup(sg, 1)
        /\ UNCHANGED <<groupStatus, result>>

\* Reconcile after the finalizer step, on the in-memory bundle b
ProceedIgnoresDeletion(b) ==
    IF b.status.phase = ""
    THEN /\ pc' = "initStatus"
         /\ appBundle' = b
         /\ UNCHANGED <<sortedGroups, gi, sortedComponents, ci, groupStatus, result>>
    ELSE EnterDeploy(b)
Proceed(b) ==
    IF b.deleting
    THEN IF b.finalizer THEN EnterFinalize(b) ELSE Return(b, "ok")
    ELSE IF b.status.phase = ""
         THEN /\ pc' = "initStatus"
              /\ appBundle' = b
              /\ UNCHANGED <<sortedGroups, gi, sortedComponents, ci, groupStatus, result>>
         ELSE EnterDeploy(b)

\* where reconcileGroup and Reconcile go when a component returns an error
PcAfterComponentErrorRetry == "component"
PcAfterComponentErrorDeployed == "statusDeployed"
PcAfterComponentError == "statusErr"

\* reconcileComponent returned (componentStatus, nil)
ComponentDeployed(ref, msg) ==
    LET cs == [name |-> CurComp.id, phase |-> "Deployed",
               message |-> msg, ref |-> ref]
        gs == [groupStatus EXCEPT !.componentStatuses = Append(@, cs)]
        done == [gs EXCEPT !.phase = "Deployed",
                           !.message = <<"All components deployed successfully">>]
        b == [appBundle EXCEPT !.status.groupStatuses = Append(@, done)]
    IN  /\ UNCHANGED <<result, pending, failedAt, sortedGroups>>
        /\ IF ci < Len(sortedComponents)
           THEN /\ pc' = "component"
                /\ ci' = ci + 1
                /\ groupStatus' = gs
                /\ UNCHANGED <<appBundle, gi, sortedComponents>>
           ELSE IF gi < Len(sortedGroups)
                THEN /\ pc' = "component"
                     /\ appBundle' = b
                     /\ BeginGroup(sortedGroups, gi + 1)
                ELSE /\ pc' = "statusDeployed"
                     /\ appBundle' = b
                     /\ groupStatus' = done
                     /\ UNCHANGED <<gi, sortedComponents, ci>>

\* componentStatus.Message of a failed component: fmt.Sprintf("<msg>: %v", err),
\* or the fixed text of the component that has neither template nor reference
FormatMessage(msg, err) ==
    IF msg = "Component must have either template or porchPackageRef specified"
    THEN <<msg>>
    ELSE <<msg, err>>

\* groupStatus.Message of a failed group:
\* fmt.Sprintf("Failed to deploy component %s: %v", component.Name, err)
GroupFailureMessageNoError(c, err) == <<"Failed to deploy component", c>>
GroupFailureMessage(c, err) == <<"Failed to deploy component", c, err>>

\* reconcileComponent returned (componentStatus, err): reconcileGroup marks the
\* group Failed and returns, Reconcile appends it and calls updateStatusWithError
ComponentFailed(msg, err) ==
    LET cs == [name |-> CurComp.id, phase |-> "Failed",
               message |-> FormatMessage(msg, err), ref |-> "none"]
        gs == [groupStatus EXCEPT
                  !.phase = "Failed",
                  !.message = GroupFailureMessage(CurComp.id, err),
                  !.componentStatuses = Append(@, cs)]
    IN  /\ pc' = PcAfterComponentError
        /\ appBundle' = [appBundle EXCEPT !.status.groupStatuses = Append(@, gs)]
        /\ groupStatus' = gs
        /\ pending' = err
        /\ failedAt' = IF failedAt = -1 THEN Len(opLog') ELSE failedAt
        /\ UNCHANGED <<result, sortedGroups, gi, sortedComponents, ci>>

-----------------------------------------------------------------------------
(* Initial state: a bundle the user has just created, an empty cluster *)

\* the shapes of the bundles deployed: the number of components of each group
Shapes == {<<1>>, <<2>>, <<1, 1>>, <<1, 2>>}

\* the payloads in the order they are dealt to the components of a bundle
PayloadCycle == <<"nsobj", "dep", "pkg", "xjob", "bad">>

\* the number of components in the groups before group g of shape sh
RECURSIVE Before(_, _)
Before(sh, g) == IF g = 1 THEN 0 ELSE Before(sh, g - 1) + sh[g - 1]

\* group.Name and component.Name, by position in the bundle as written
GroupNames == <<"g1", "g2">>
ComponentNames == <<"c1", "c2", "c3">>

\* the bundle of shape sh whose components carry the payloads of the cycle from
\* position k on, with group orders go and component orders co
MakeBundle(sh, k, go, co) ==
    [g \in 1..Len(sh) |->
        [name |-> GroupNames[g],
         order |-> go[g],
         comps |-> [c \in 1..sh[g] |->
                      [name |-> ComponentNames[Before(sh, g) + c],
                       order |-> co[Before(sh, g) + c],
                       payload |-> PayloadCycle[((k + Before(sh, g) + c - 1) % 5) + 1]]]]]

\* Orders are compared, never added, by the engine: the smallest group Order and
\* the smallest component Order of each group are 0
Normalised(b) ==
    /\ \E g \in 1..Len(b) : b[g].order = 0
    /\ \A g \in 1..Len(b) : \E c \in 1..Len(b[g].comps) : b[g].comps[c].order = 0

Bundles ==
    {b \in UNION {{MakeBundle(sh, k, go, co) :
                     k \in 0..4, go \in [1..Len(sh) -> Orders],
                     co \in [1..(Before(sh, Len(sh)) + sh[Len(sh)]) -> Orders]} :
                  sh \in Shapes} : Normalised(b)}

NewBundle ==
    [exists |-> TRUE, finalizer |-> FALSE, others |-> FALSE, deleting |-> FALSE,
     generation |-> 1, status |-> EmptyStatus]

NoObject ==
    [exists |-> FALSE, owner |-> FALSE, wave |-> <<>>, state |-> "notready",
     namespace |-> "", labels |-> NoLabels]

NoPackageVariant ==
    [exists |-> FALSE, ready |-> FALSE, namespace |-> "", wave |-> <<>>,
     waitWave |-> <<>>, mutators |-> <<>>]

\* the Deployment and the result of the readiness computation while it is not run
DeploymentIdle ==
    [replicas |-> FieldAbsent, readyReplicas |-> FieldAbsent,
     updatedReplicas |-> FieldAbsent, availableReplicas |-> FieldAbsent]

ReadyNone == [done |-> FALSE, ready |-> FALSE, err |-> FALSE]

\* the resources the components of the two bundles can name: the
\* PackageVariant of a package or the object of a template
PairBundles == {"a", "b"}

Targets == [packaged : BOOLEAN, name : {"p", "q"}]

\* a resource that is not in the cluster; rv counts the writes the API server
\* has accepted for it, its resource version
NoTarget == [exists |-> FALSE, by |-> "", rv |-> 0]

\* the two bundles while they are not deployed
PairIdle ==
    /\ pSpec = [k \in PairBundles |-> [packaged |-> FALSE, name |-> "p"]]
    /\ store = [t \in Targets |-> NoTarget]
    /\ wpc = [k \in PairBundles |-> "idle"]
    /\ wphase = [k \in PairBundles |-> ""]
    /\ wcall = [k \in PairBundles |-> <<>>]

\* the package and the result of the pipeline while it is not run
GateIdle == [items |-> <<>>, suffix |-> 0]

GateNone == [done |-> FALSE, items |-> <<>>]

WaveIdle == [g1 |-> 0, c1 |-> 0, g2 |-> 0, c2 |-> 0]

\* no discovery is running
DiscoverIdle == [targets |-> "absent", revision |-> FALSE, resources |-> <<>>, found |-> FALSE]

DiscoverNone == [done |-> FALSE, err |-> FALSE, monitored |-> <<>>]

\* no slice is being sorted
SortIdle == <<>>

SortNone == [done |-> FALSE, groups |-> <<>>, components |-> <<>>]

WaveNone == [done |-> FALSE, w1 |-> 0, w2 |-> 0, wait1 |-> 0]

EngineInit ==
    /\ bundle = NewBundle
    /\ objs = [id \in ObjIds |-> NoObject]
    /\ pv = NoPackageVariant
    /\ pc = "idle"
    /\ appBundle = NewBundle
    /\ sortedGroups = <<>>
    /\ gi = 0
    /\ sortedComponents = <<>>
    /\ ci = 0
    /\ groupStatus = NewGroupStatus(0)
    /\ obj = NoObj
    /\ polls = 0
    /\ pending = ""
    /\ result = "none"
    /\ stale = FALSE
    /\ opLog = <<>>
    /\ readyTrue = {}
    /\ failedAt = -1

Init ==
    /\ spec \in Bundles
    /\ EngineInit
    /\ wIn = WaveIdle
    /\ wOut = WaveNone
    /\ dIn = DeploymentIdle
    /\ dOut = ReadyNone
    /\ gIn = GateIdle
    /\ gOut = GateNone
    /\ sIn = SortIdle
    /\ sOut = SortNone
    /\ rIn = DiscoverIdle
    /\ rOut = DiscoverNone
    /\ PairIdle

-----------------------------------------------------------------------------
(* Reconcile *)

\* Reconcile is called: r.Get of the AppBundle, then the finalizer check
Reconcile ==
    /\ pc = "idle"
    /\ stale' = FALSE
    /\ opLog' = <<>>
    /\ readyTrue' = {}
    /\ failedAt' = -1
    /\ pending' = ""
    /\ obj' = NoObj
    /\ polls' = 0
    /\ UNCHANGED <<spec, bundle, objs, pv, funcVars>>
    /\ \E got \in {"object", "error"} :
          IF got = "error"
          THEN Return(appBundle, "err")
          ELSE IF ~bundle.exists
               THEN Return(appBundle, "ok")
               ELSE IF ~bundle.finalizer
                    THEN /\ pc' = "addFinalizer"
                         /\ appBundle' = bundle
                         /\ UNCHANGED <<sortedGroups, gi, sortedComponents, ci,
                                        groupStatus, result>>
                    ELSE Proceed(bundle)

\* controllerutil.AddFinalizer(appBundle, appBundleFinalizer) on the bundle b
WithFinalizerDropped(b) == b
WithFinalizer(b) == [b EXCEPT !.finalizer = TRUE]

\* r.Update of the bundle with the finalizer added: the API server accepts no
\* new finalizer on an object that is marked for deletion
FinalizerWriteOutcomesAnyTime == BundleWriteOutcomes
FinalizerWriteOutcomes == IF bundle.deleting THEN {"error"} ELSE BundleWriteOutcomes

\* controllerutil.AddFinalizer and r.Update
AddFinalizer ==
    /\ pc = "addFinalizer"
    /\ UNCHANGED <<spec, objs, pv, obj, polls, pending, stale, opLog, readyTrue,
                   failedAt, funcVars>>
    /\ \E w \in FinalizerWriteOutcomes :
          IF w = "ok"
          THEN /\ bundle' = WithFinalizer(bundle)
               /\ Proceed(bundle')
          ELSE /\ UNCHANGED bundle
               /\ Return(appBundle, "err")

\* "Initialize status if needed": Status().Update with phase Pending, then
\* reconcilePorchPackages (which returns nil) and the start of the deployment
InitStatus ==
    /\ pc = "initStatus"
    /\ UNCHANGED <<spec, objs, pv, obj, polls, pending, stale, opLog, readyTrue,
                   failedAt, funcVars>>
    /\ \E w \in BundleWriteOutcomes :
          IF w = "ok"
          THEN /\ bundle' = [bundle EXCEPT
                                 !.status = [appBundle.status EXCEPT !.phase = "Pending"]]
               /\ EnterDeploy(bundle')
          ELSE /\ UNCHANGED bundle
               /\ Return([appBundle EXCEPT !.status.phase = "Pending"], "err")

\* reconcileComponent on a component without package reference whose template
\* is empty or does not parse
ComponentInvalid ==
    /\ pc = "component"
    /\ ~IsPackaged(CurComp.payload)
    /\ ~Parses(CurComp.payload)
    /\ UNCHANGED <<spec, bundle, objs, pv, obj, polls, stale, opLog, readyTrue, funcVars>>
    /\ IF HasTemplate(CurComp.payload)
       THEN ComponentFailed("Failed to parse template", "parse error")
       ELSE ComponentFailed("Component must have either template or porchPackageRef specified",
                            "neither template nor porchPackageRef")

\* reconcileComponent: build the object and r.Get the existing one
ComponentGet ==
    /\ pc = "component"
    /\ ~IsPackaged(CurComp.payload)
    /\ Parses(CurComp.payload)
    /\ obj' = BuildObject(CurGroup, CurComp)
    /\ opLog' = Append(opLog, Entry("get", FALSE))
    /\ UNCHANGED <<spec, bundle, objs, pv, polls, stale, readyTrue, funcVars>>
    /\ \E got \in {"answer", "error"} :
          IF got = "error"
          THEN ComponentFailed("Failed to get existing resource", "get failed")
          ELSE /\ pc' = IF objs[CurComp.payload].exists THEN "update" ELSE "create"
               /\ UNCHANGED <<appBundle, sortedGroups, gi, sortedComponents, ci,
                              groupStatus, pending, result, failedAt>>

\* after a successful write: waitForResourceReady returns at once for the
\* immediately ready kinds, otherwise the poll loop starts
AfterWrite ==
    IF ReturnsAtOnce(obj.kind)
    THEN /\ readyTrue' = readyTrue \cup {<<CurGroup.id, CurComp.id>>}
         /\ ComponentDeployed([kind |-> obj.kind, name |-> obj.id,
                               namespace |-> obj.namespace],
                              <<"Resource deployed successfully">>)
    ELSE /\ pc' = "wait"
         /\ UNCHANGED <<readyTrue, appBundle, sortedGroups, gi, sortedComponents, ci,
                        groupStatus, pending, result, failedAt>>

\* reconcileComponent: r.Create
ComponentCreate ==
    /\ pc = "create"
    /\ opLog' = Append(opLog, Entry("create", FALSE))
    /\ polls' = 0
    /\ UNCHANGED <<spec, bundle, pv, obj, stale, funcVars>>
    /\ \E w \in (IF objs[obj.id].exists THEN {"error"} ELSE {"ok", "error"}) :
          IF w = "ok"
          THEN /\ objs' = [objs EXCEPT ![obj.id] =
                              [exists |-> TRUE, owner |-> obj.owner,
                               wave |-> obj.wave, state |-> "notready",
                               namespace |-> obj.namespace, labels |-> obj.labels]]
               /\ AfterWrite
          ELSE /\ UNCHANGED <<objs, readyTrue>>
               /\ ComponentFailed("Failed to create resource", "create failed")

\* reconcileComponent: r.Update with the resource version of the existing object
ComponentUpdate ==
    /\ pc = "update"
    /\ opLog' = Append(opLog, Entry("update", FALSE))
    /\ polls' = 0
    /\ UNCHANGED <<spec, bundle, pv, obj, stale, funcVars>>
    /\ \E w \in (IF objs[obj.id].exists THEN {"ok", "error"} ELSE {"error"}) :
          IF w = "ok"
          THEN /\ objs' = [objs EXCEPT ![obj.id].owner = obj.owner,
                                       ![obj.id].wave = obj.wave,
                                       ![obj.id].labels = obj.labels]
               /\ AfterWrite
          ELSE /\ UNCHANGED <<objs, readyTrue>>
               /\ ComponentFailed("Failed to update resource", "update failed")

\* wait.PollUntilContextTimeout(ctx, pollInterval, timeout, true, ...): the
\* window of the wait has elapsed after n polls, one per interval
WindowElapsedLate(n) == n >= MaxPolls + 1
WindowElapsed(n) == n >= MaxPolls

\* what the r.Get of a poll can answer for a resource that exists or not
ReadAnswers(exists) ==
    {"error"} \cup (IF exists THEN {"object"} ELSE {"notfound"})

\* the error the poll function returns for the answer of its r.Get; "" is nil:
\* errors.IsNotFound(err) is answered with (false, nil)
PollErrorOnNotFound(answer) ==
    CASE answer = "error" -> "get failed"
      [] answer = "notfound" -> "not found"
      [] OTHER -> ""
PollError(answer) == IF answer = "error" THEN "get failed" ELSE ""

\* what one round of a poll loop returns when its r.Get answers and the
\* readiness check of a fetched object gives res
Poll(answer, res) ==
    IF PollError(answer) # ""
    THEN [res |-> "error", err |-> PollError(answer)]
    ELSE [res |-> IF answer = "object" THEN res ELSE "notready", err |-> ""]

\* the outcomes one poll of waitForResourceReady can have for object id
PollOutcomes(id, kind) ==
    {Poll(a, PollResult(kind, objs[id])) : a \in ReadAnswers(objs[id].exists)}

\* waitForResourceReady: one round of the poll loop
WaitPoll ==
    /\ pc = "wait"
    /\ opLog' = Append(opLog, Entry("get", FALSE))
    /\ UNCHANGED <<spec, bundle, objs, pv, obj, stale, funcVars>>
    /\ \E r \in PollOutcomes(obj.id, obj.kind) :
          CASE r.res = "ready" ->
                 /\ readyTrue' = readyTrue \cup {<<CurGroup.id, CurComp.id>>}
                 /\ polls' = 0
                 /\ ComponentDeployed([kind |-> obj.kind, name |-> obj.id,
                                       namespace |-> obj.namespace],
                                      <<"Resource deployed successfully">>)
            [] r.res = "fatal" ->
                 /\ UNCHANGED <<readyTrue, polls>>
                 /\ ComponentFailed("Resource not ready", "job failed")
            [] r.res = "error" ->
                 /\ UNCHANGED <<readyTrue, polls>>
                 /\ ComponentFailed("Resource not ready", r.err)
            [] OTHER ->
                 IF WindowElapsed(polls + 1)
                 THEN /\ UNCHANGED <<readyTrue, polls>>
                      /\ ComponentFailed("Resource not ready", "timeout")
                 ELSE /\ polls' = polls + 1
                      /\ UNCHANGED <<readyTrue, pc, appBundle, sortedGroups, gi,
                                     sortedComponents, ci, groupStatus, pending,
                                     result, failedAt>>

\* Reconcile, "All groups deployed successfully": the status of the bundle b
\* after the assignments and meta.SetStatusCondition
DeployedStatusNotReady(b) ==
    [b.status EXCEPT !.phase = "Deployed",
                     !.message = <<"All groups deployed successfully">>,
                     !.observedGeneration = b.generation]
DeployedStatusNoGeneration(b) ==
    [b.status EXCEPT !.phase = "Deployed",
                     !.message = <<"All groups deployed successfully">>,
                     !.ready = "True"]
DeployedStatus(b) ==
    [b.status EXCEPT !.phase = "Deployed",
                     !.message = <<"All groups deployed successfully">>,
                     !.observedGeneration = b.generation,
                     !.ready = "True"]

\* updateStatusWithError: the status of the bundle b after the assignments and
\* meta.SetStatusCondition
FailedStatusKeepsPhase(b, err) ==
    [b.status EXCEPT !.message = <<err>>, !.ready = "False"]
FailedStatus(b, err) ==
    [b.status EXCEPT !.phase = "Failed", !.message = <<err>>, !.ready = "False"]

\* Reconcile, "All groups deployed successfully": the final Status().Update
UpdateStatusDeployed ==
    /\ pc = "statusDeployed"
    /\ UNCHANGED <<spec, objs, pv, obj, polls, pending, stale, opLog, readyTrue,
                   failedAt, funcVars>>
    /\ LET b == [appBundle EXCEPT !.status = DeployedStatus(appBundle)]
       IN  \E w \in BundleWriteOutcomes :
              IF w = "ok"
              THEN /\ bundle' = [bundle EXCEPT !.status = b.status]
                   /\ Return(b, "ok")
              ELSE /\ UNCHANGED bundle
                   /\ Return(b, "err")

\* updateStatusWithError
UpdateStatusWithError ==
    /\ pc = "statusErr"
    /\ UNCHANGED <<spec, objs, pv, obj, polls, pending, stale, opLog, readyTrue,
                   failedAt, funcVars>>
    /\ LET b == [appBundle EXCEPT !.status = FailedStatus(appBundle, pending)]
       IN  \E w \in BundleWriteOutcomes :
              IF w = "ok"
              THEN /\ bundle' = [bundle EXCEPT !.status = b.status]
                   /\ Return(b, "err")
              ELSE /\ UNCHANGED bundle
                   /\ Return(b, "err")

-----------------------------------------------------------------------------
(* reconcileComponentWithPorch *)

\* componentStatus.Message of a packaged component with n resources monitored
PorchDeployedMessage(n) == <<"PackageVariant deployed successfully via Porch", n>>

PackageVariantRef ==
    [kind |-> "PackageVariant", name |-> "appbundle-pkg", namespace |-> PorchRefNamespace]

\* where reconcileComponentWithPorch goes after the r.Get of the PackageVariant:
\* an existing one is left as it is, a missing one is created
PcAfterPorchGetCreate(exists) == "pvCreate"
PcAfterPorchGetSkipsWait(exists) == IF exists THEN "pvDiscover" ELSE "pvCreate"
PcAfterPorchGet(exists) == IF exists THEN "pvWait" ELSE "pvCreate"

\* build the PackageVariant and r.Get the existing one
PorchGet ==
    /\ pc = "component"
    /\ IsPackaged(CurComp.payload)
    /\ opLog' = Append(opLog, Entry("pvget", FALSE))
    /\ polls' = 0
    /\ UNCHANGED <<spec, bundle, objs, pv, obj, stale, readyTrue, funcVars>>
    /\ \E got \in {"answer", "error"} :
          IF got = "error"
          THEN ComponentFailed("Failed to get PackageVariant", "get failed")
          ELSE /\ pc' = PcAfterPorchGet(pv.exists)
               /\ UNCHANGED <<appBundle, sortedGroups, gi, sortedComponents, ci,
                              groupStatus, pending, result, failedAt>>

\* r.Create of the PackageVariant with its pipeline of three mutators
PorchCreate ==
    /\ pc = "pvCreate"
    /\ opLog' = Append(opLog, Entry("pvcreate", FALSE))
    /\ UNCHANGED <<spec, bundle, objs, obj, polls, stale, readyTrue, funcVars>>
    /\ \E w \in (IF pv.exists THEN {"error"} ELSE {"ok", "error"}) :
          IF w = "ok"
          THEN /\ pv' = [exists |-> TRUE, ready |-> FALSE, namespace |-> PvNamespace,
                         wave |-> Itoa(SyncWave(CurGroup.order, CurComp.order)),
                         waitWave |-> Itoa(WaitSyncWave(CurGroup.order)),
                         mutators |-> MutatorImages(Mutators(CurGroup, CurComp, 0))]
               /\ pc' = "pvWait"
               /\ UNCHANGED <<appBundle, sortedGroups, gi, sortedComponents, ci,
                              groupStatus, pending, result, failedAt>>
          ELSE /\ UNCHANGED pv
               /\ ComponentFailed("Failed to create PackageVariant", "create failed")

\* waitForPackageVariantReady: one round of the poll loop
PorchWaitPoll ==
    /\ pc = "pvWait"
    /\ opLog' = Append(opLog, Entry("pvget", FALSE))
    /\ UNCHANGED <<spec, bundle, objs, pv, obj, stale, funcVars>>
    /\ \E r \in {Poll(a, IF pv.ready THEN "ready" ELSE "notready") :
                      a \in ReadAnswers(pv.exists)} :
          CASE r.res = "ready" ->
                 /\ readyTrue' = readyTrue \cup {<<CurGroup.id, CurComp.id>>}
                 /\ polls' = 0
                 /\ pc' = "pvDiscover"
                 /\ UNCHANGED <<appBundle, sortedGroups, gi, sortedComponents, ci,
                                groupStatus, pending, result, failedAt>>
            [] r.res = "error" ->
                 /\ UNCHANGED <<readyTrue, polls>>
                 /\ ComponentFailed("PackageVariant not ready", r.err)
            [] OTHER ->
                 IF WindowElapsed(polls + 1)
                 THEN /\ UNCHANGED <<readyTrue, polls>>
                      /\ ComponentFailed("PackageVariant not ready", "timeout")
                 ELSE /\ polls' = polls + 1
                      /\ UNCHANGED <<readyTrue, pc, appBundle, sortedGroups, gi,
                                     sortedComponents, ci, groupStatus, pending,
                                     result, failedAt>>

\* what an error of the discovery or of the wait on a monitored resource makes
\* of the component: it is logged ("Don't fail - the PackageVariant is ready")
MonitoringFailsOnError(r) == r \in {"error", "fatal", "timeout"}
MonitoringFails(r) == FALSE

\* "Auto-discover and monitor resources from the deployed package": a template
\* that is provided names the resource to monitor; otherwise
\* discoverPackageVariantResources runs, and the Get of the PackageVariant and
\* the List of PackageRevisions answer with an error, with no workload, or
\* with a workload the package produced
PorchDiscover ==
    /\ pc = "pvDiscover"
    /\ UNCHANGED <<spec, bundle, objs, pv, obj, polls, stale, readyTrue, funcVars>>
    /\ IF MonitorsTemplate(CurComp.payload)
       THEN /\ UNCHANGED opLog
            /\ pc' = "pvResourceWait"
            /\ UNCHANGED <<appBundle, sortedGroups, gi, sortedComponents, ci,
                           groupStatus, pending, result, failedAt>>
       ELSE /\ opLog' = Append(opLog, Entry("pvget", FALSE))
            /\ \E found \in {"error", "none", "workload"} :
                  IF found = "workload"
                  THEN /\ pc' = "pvResourceWait"
                       /\ UNCHANGED <<appBundle, sortedGroups, gi, sortedComponents, ci,
                                      groupStatus, pending, result, failedAt>>
                  ELSE IF MonitoringFails(found)
                       THEN ComponentFailed("Resource discovery failed", "get failed")
                       ELSE ComponentDeployed(PackageVariantRef, PorchDeployedMessage(0))

\* waitForResourceReady on a monitored resource: one round of its poll loop;
\* whatever the wait returns is logged and the component is Deployed
PorchResourcePoll ==
    /\ pc = "pvResourceWait"
    /\ opLog' = Append(opLog, Entry("get", FALSE))
    /\ UNCHANGED <<spec, bundle, objs, pv, obj, stale, readyTrue, funcVars>>
    /\ \E r \in {"ready", "notready", "fatal", "error"} :
          IF r = "notready" /\ ~WindowElapsed(polls + 1)
          THEN /\ polls' = polls + 1
               /\ UNCHANGED <<pc, appBundle, sortedGroups, gi, sortedComponents, ci,
                              groupStatus, pending, result, failedAt>>
          ELSE /\ polls' = 0
               /\ IF MonitoringFails(IF r = "notready" THEN "timeout" ELSE r)
                  THEN ComponentFailed("Resource not ready", r)
                  ELSE ComponentDeployed(PackageVariantRef, PorchDeployedMessage(1))

-----------------------------------------------------------------------------
(* finalizeAppBundle *)

\* whether finalizeAppBundle returns an error after a delete answered r
FinalizeReturnsOnError(r) == r = "error"
FinalizeReturns(r) == FALSE

\* whether the traversal issues a delete for a component without package
\* reference: its template is not empty and parses
FinalizeDeletesUnowned(p) ==
    HasTemplate(p) /\ Parses(p) /\ ~OwnerReferenceSet(ResolvedNamespace(p))
FinalizeDeletes(p) == HasTemplate(p) /\ Parses(p)

\* obj.GetNamespace() in finalizeAppBundle after "Set namespace if not
\* specified in template"
FinalizeNamespaceAsWritten(p) == ManifestNamespace(p)
FinalizeNamespace(p) ==
    IF ManifestNamespace(p) = "" /\ BundleNamespace # ""
    THEN BundleNamespace
    ELSE ManifestNamespace(p)

\* finalizeAppBundle: pvNamespace
FinalizePvNamespace == IF PorchRefNamespace # "" THEN PorchRefNamespace ELSE "default"

\* the object r.Delete addresses exists: the kind and the name are those of the
\* template or of the package, the namespace is the one computed here
DeleteFindsObject(id) == objs[id].exists /\ objs[id].namespace = FinalizeNamespace(id)
DeleteFindsPackageVariant == pv.exists /\ pv.namespace = FinalizePvNamespace

\* the traversal moves to the next component, the next group, or returns nil
FinalizeAdvance ==
    /\ UNCHANGED <<appBundle, result, sortedGroups, groupStatus>>
    /\ IF ci < Len(sortedComponents)
       THEN /\ ci' = ci + 1
            /\ UNCHANGED <<pc, gi, sortedComponents>>
       ELSE IF gi < Len(sortedGroups)
            THEN /\ BeginFinalizeGroup(sortedGroups, gi + 1)
                 /\ UNCHANGED pc
            ELSE /\ pc' = "removeFinalizer"
                 /\ UNCHANGED <<gi, sortedComponents, ci>>

\* one component of the reverse traversal
FinalizeComponent ==
    /\ pc = "finalize"
    /\ UNCHANGED <<spec, bundle, obj, polls, pending, stale, readyTrue, failedAt,
                   funcVars>>
    /\ IF IsPackaged(CurComp.payload)
       THEN /\ opLog' = Append(opLog, Entry("pvdelete", FALSE))
            /\ \E r \in {"error"} \cup
                        {IF DeleteFindsPackageVariant THEN "ok" ELSE "notfound"} :
                  /\ pv' = IF r = "ok" THEN NoPackageVariant ELSE pv
                  /\ UNCHANGED objs
                  /\ IF FinalizeReturns(r)
                     THEN Return(appBundle, "err")
                     ELSE FinalizeAdvance
       ELSE IF FinalizeDeletes(CurComp.payload)
            THEN LET id == CurComp.payload
                 IN  /\ opLog' = Append(opLog,
                                   Entry("delete", objs[id].exists /\ objs[id].owner))
                     /\ \E r \in {"error"} \cup
                                 {IF DeleteFindsObject(id) THEN "ok" ELSE "notfound"} :
                           /\ objs' = IF r = "ok"
                                      THEN [objs EXCEPT ![id] = NoObject]
                                      ELSE objs
                           /\ UNCHANGED pv
                           /\ IF FinalizeReturns(r)
                              THEN Return(appBundle, "err")
                              ELSE FinalizeAdvance
            ELSE /\ UNCHANGED <<opLog, objs, pv>>
                 /\ FinalizeAdvance

\* controllerutil.RemoveFinalizer and r.Update; the API server removes an object
\* marked for deletion once its last finalizer is gone
RemoveFinalizer ==
    /\ pc = "removeFinalizer"
    /\ UNCHANGED <<spec, objs, pv, obj, polls, pending, stale, opLog, readyTrue,
                   failedAt, funcVars>>
    /\ \E w \in BundleWriteOutcomes :
          IF w = "ok"
          THEN /\ bundle' = [bundle EXCEPT !.finalizer = FALSE,
                                           !.exists = bundle.others]
               /\ Return([appBundle EXCEPT !.finalizer = FALSE], "ok")
          ELSE /\ UNCHANGED bundle
               /\ Return([appBundle EXCEPT !.finalizer = FALSE], "err")

-----------------------------------------------------------------------------
(* The cluster around the engine *)

\* the user deletes the AppBundle: with a finalizer the API server only marks it
UserDelete ==
    /\ bundle.exists
    /\ ~bundle.deleting
    /\ bundle' = IF bundle.finalizer \/ bundle.others
                 THEN [bundle EXCEPT !.deleting = TRUE]
                 ELSE [bundle EXCEPT !.exists = FALSE]
    /\ stale' = TRUE
    /\ UNCHANGED <<spec, objs, pv, pc, appBundle, sortedGroups, gi, sortedComponents,
                   ci, groupStatus, obj, polls, pending, result, opLog,
                   readyTrue, failedAt, funcVars>>

\* the user changes something in the spec other than the groups (the Porch
\* integration settings): the API server increments metadata.generation
UserEdit ==
    /\ bundle.exists
    /\ ~bundle.deleting
    /\ bundle.generation < MaxGeneration
    /\ bundle' = [bundle EXCEPT !.generation = @ + 1]
    /\ stale' = TRUE
    /\ UNCHANGED <<spec, objs, pv, pc, appBundle, sortedGroups, gi, sortedComponents,
                   ci, groupStatus, obj, polls, pending, result, opLog,
                   readyTrue, failedAt, funcVars>>

\* a workload controller reports on a Deployment or Job: the Deployment rolls
\* out, the Job completes or fails
WorkloadProgress ==
    /\ \E id \in ObjIds :
          /\ objs[id].exists
          /\ objs[id].state = "notready"
          /\ Kind(id) \notin ImmediatelyReadyKinds
          /\ \E st \in (IF Kind(id) = "Job" THEN {"ready", "failed"} ELSE {"ready"}) :
                objs' = [objs EXCEPT ![id].state = st]
    /\ UNCHANGED <<spec, bundle, pv, pc, appBundle, sortedGroups, gi, sortedComponents,
                   ci, groupStatus, obj, polls, pending, result, stale, opLog,
                   readyTrue, failedAt, funcVars>>

\* Porch sets the Ready condition of the PackageVariant
PorchReady ==
    /\ pv.exists
    /\ ~pv.ready
    /\ pv' = [pv EXCEPT !.ready = TRUE]
    /\ UNCHANGED <<spec, bundle, objs, pc, appBundle, sortedGroups, gi,
                   sortedComponents, ci, groupStatus, obj, polls, pending, result,
                   stale, opLog, readyTrue, failedAt, funcVars>>

\* the garbage collector removes an object whose owner, the AppBundle, is gone
GarbageCollect ==
    /\ ~bundle.exists
    /\ \E id \in ObjIds :
          /\ objs[id].exists
          /\ objs[id].owner
          /\ objs' = [objs EXCEPT ![id] = NoObject]
    /\ UNCHANGED <<spec, bundle, pv, pc, appBundle, sortedGroups, gi, sortedComponents,
                   ci, groupStatus, obj, polls, pending, result, stale, opLog,
                   readyTrue, failedAt, funcVars>>

Next ==
    \/ Reconcile
    \/ AddFinalizer
    \/ InitStatus
    \/ ComponentInvalid
    \/ ComponentGet
    \/ ComponentCreate
    \/ ComponentUpdate
    \/ WaitPoll
    \/ PorchGet
    \/ PorchCreate
    \/ PorchWaitPoll
    \/ PorchDiscover
    \/ PorchResourcePoll
    \/ UpdateStatusDeployed
    \/ UpdateStatusWithError
    \/ FinalizeComponent
    \/ RemoveFinalizer
    \/ UserDelete
    \/ WorkloadProgress
    \/ PorchReady
    \/ GarbageCollect

Spec == Init /\ [][Next]_vars

-----------------------------------------------------------------------------
(* The engine on a bundle of one group whose spec the user edits *)

EditInit ==
    /\ spec \in {b \in Bundles : Len(b) = 1}
    /\ EngineInit
    /\ wIn = WaveIdle
    /\ wOut = WaveNone
    /\ dIn = DeploymentIdle
    /\ dOut = ReadyNone
    /\ gIn = GateIdle
    /\ gOut = GateNone
    /\ sIn = SortIdle
    /\ sOut = SortNone
    /\ rIn = DiscoverIdle
    /\ rOut = DiscoverNone
    /\ PairIdle

EditNext ==
    \/ Next
    \/ UserEdit

SpecEdit == EditInit /\ [][EditNext]_vars

-----------------------------------------------------------------------------
(* Sync waves computed for two groups *)

WaveInputs ==
    [g1 : 0..MaxWaveGroupOrder, c1 : WaveCompOrders,
     g2 : 0..MaxWaveGroupOrder, c2 : WaveCompOrders]

WaveInit ==
    /\ spec = MakeBundle(<<1>>, 0, <<0>>, <<0>>)
    /\ EngineInit
    /\ wIn \in WaveInputs
    /\ wOut = WaveNone
    /\ dIn = DeploymentIdle
    /\ dOut = ReadyNone
    /\ gIn = GateIdle
    /\ gOut = GateNone
    /\ sIn = SortIdle
    /\ sOut = SortNone
    /\ rIn = DiscoverIdle
    /\ rOut = DiscoverNone
    /\ PairIdle

\* reconcileGroup / reconcileComponentWithPorch compute the waves of a component
\* of group g1, of a component of group g2 and of the wait Job of group g1
WaveCompute ==
    /\ wOut = WaveNone
    /\ wOut' = [done |-> TRUE,
                w1 |-> SyncWave(wIn.g1, wIn.c1),
                w2 |-> SyncWave(wIn.g2, wIn.c2),
                wait1 |-> WaitSyncWave(wIn.g1)]
    /\ UNCHANGED <<engineVars, wIn, readyVars, gateVars, sortVars, discoverVars, pairVars>>

WaveNext == WaveCompute

SpecWave == WaveInit /\ [][WaveNext]_vars

-----------------------------------------------------------------------------
(* sort.Slice applied to a slice of groups and to a slice of components *)

\* the Order values of the sorted slices
SortOrders == 0..MaxSortOrder

\* the lengths of the sorted slices: the longest sorted by insertion alone
\* and the shortest that is partitioned
SortLens == {MaxInsertion, MaxInsertion + 1}

\* the slice whose elements have the Order values of sIn
SortedSlice == [i \in 1..Len(sIn) |-> [id |-> i, order |-> sIn[i]]]

SortInit ==
    /\ spec = MakeBundle(<<1>>, 0, <<0>>, <<0>>)
    /\ EngineInit
    /\ wIn = WaveIdle
    /\ wOut = WaveNone
    /\ dIn = DeploymentIdle
    /\ dOut = ReadyNone
    /\ gIn = GateIdle
    /\ gOut = GateNone
    /\ sIn \in UNION {[1..n -> SortOrders] : n \in SortLens}
    /\ sOut = SortNone
    /\ rIn = DiscoverIdle
    /\ rOut = DiscoverNone
    /\ PairIdle

\* Reconcile sorts sortedGroups and reconcileGroup sorts sortedComponents
SortCompute ==
    /\ sOut = SortNone
    /\ LET xs == SortedSlice
           gs == SortSlice(xs, [i \in 1..Len(xs), j \in 1..Len(xs) |->
                                   GroupLess(xs[i], xs[j])])
           cs == SortSlice(xs, [i \in 1..Len(xs), j \in 1..Len(xs) |->
                                   ComponentLess(xs[i], xs[j])])
       IN  sOut' = [done |-> TRUE,
                    groups |-> [i \in 1..Len(xs) |-> gs[i].id],
                    components |-> [i \in 1..Len(xs) |-> cs[i].id]]
    /\ UNCHANGED <<engineVars, waveVars, readyVars, gateVars, sIn, discoverVars, pairVars>>

SortNext == SortCompute

SpecSort == SortInit /\ [][SortNext]_vars

-----------------------------------------------------------------------------
(* discoverPackageVariantResources applied to what the cluster holds *)

\* isInfrastructureResource: the kinds that need no readiness monitoring
InfraKinds ==
    {"Namespace", "ConfigMap", "Secret", "ServiceAccount", "Role", "RoleBinding",
     "ClusterRole", "ClusterRoleBinding", "CustomResourceDefinition",
     "ResourceQuota", "LimitRange"}

isInfrastructureResource(kind) == kind \in InfraKinds

\* status.downstreamTargets of the PackageVariant: absent, the list of targets
\* the PackageVariant API declares, or a map with the key "0"
TargetShapes == {"absent", "list", "map"}

\* unstructured.NestedString(pv.Object, "status", "downstreamTargets", "0",
\* "name"): every field of the path is looked up in a map; a value on the
\* path that is not a map is an accessor error
NestedTargetName(targets) ==
    CASE targets = "absent" -> [found |-> FALSE, err |-> FALSE]
      [] targets = "list" -> [found |-> FALSE, err |-> TRUE]
      [] OTHER -> [found |-> TRUE, err |-> FALSE]

\* json.Unmarshal of the data of a resource: content that is YAML is skipped
Unmarshals(r) == r.format = "json"

\* discoverPackageVariantResources once the PackageVariant is read and the
\* PackageRevisions are listed: in.revision says a PackageRevision matches the
\* package and the repository, in.found that it has spec.resources
discoverPackageVariantResources(in) ==
    LET name == NestedTargetName(in.targets)
        Monitored(r) ==
            Unmarshals(r) /\ r.kind # "" /\ ~isInfrastructureResource(r.kind)
    IN  IF name.err \/ ~name.found THEN [err |-> TRUE, monitored |-> <<>>]
        ELSE IF ~in.revision THEN [err |-> TRUE, monitored |-> <<>>]
        ELSE IF ~in.found THEN [err |-> FALSE, monitored |-> <<>>]
        ELSE [err |-> FALSE, monitored |-> SelectSeq(in.resources, Monitored)]

\* the resources a PackageRevision lists
ListedResources == [kind : {"Deployment", "Job", "ConfigMap"}, format : {"json", "yaml"}]

DiscoverInputs ==
    [targets : TargetShapes, revision : BOOLEAN, found : BOOLEAN,
     resources : UNION {[1..n -> ListedResources] : n \in 0..MaxResources}]

DiscoverInit ==
    /\ spec = MakeBundle(<<1>>, 0, <<0>>, <<0>>)
    /\ EngineInit
    /\ wIn = WaveIdle
    /\ wOut = WaveNone
    /\ dIn = DeploymentIdle
    /\ dOut = ReadyNone
    /\ gIn = GateIdle
    /\ gOut = GateNone
    /\ sIn = SortIdle
    /\ sOut = SortNone
    /\ rIn \in DiscoverInputs
    /\ rOut = DiscoverNone
    /\ PairIdle

\* reconcileComponentWithPorch: the resources it goes on to wait for
DiscoverCompute ==
    /\ rOut = DiscoverNone
    /\ LET d == discoverPackageVariantResources(rIn)
       IN  rOut' = [done |-> TRUE, err |-> d.err, monitored |-> d.monitored]
    /\ UNCHANGED <<engineVars, waveVars, readyVars, gateVars, sortVars, rIn, pairVars>>

DiscoverNext == DiscoverCompute

SpecDiscover == DiscoverInit /\ [][DiscoverNext]_vars

-----------------------------------------------------------------------------
(* The engine on a bundle of one component, its poll loops running *)

WaitInit ==
    /\ spec \in {b \in Bundles : Len(b) = 1 /\ Len(b[1].comps) = 1}
    /\ EngineInit
    /\ wIn = WaveIdle
    /\ wOut = WaveNone
    /\ dIn = DeploymentIdle
    /\ dOut = ReadyNone
    /\ gIn = GateIdle
    /\ gOut = GateNone
    /\ sIn = SortIdle
    /\ sOut = SortNone
    /\ rIn = DiscoverIdle
    /\ rOut = DiscoverNone
    /\ PairIdle

\* a poll loop that has started runs its next round after the poll interval
WaitFairness ==
    /\ WF_vars(WaitPoll)
    /\ WF_vars(PorchWaitPoll)
    /\ WF_vars(PorchResourcePoll)

SpecWait == WaitInit /\ [][Next]_vars /\ WaitFairness

-----------------------------------------------------------------------------
(* The engine on a bundle of one component, among them one of a kind the wait
   has no case for *)

\* a bundle of one group with the one component of payload p
OneComponent(p) ==
    <<[name |-> GroupNames[1], order |-> 0,
       comps |-> <<[name |-> ComponentNames[1], order |-> 0, payload |-> p]>>]>>

KindInit ==
    /\ spec \in {OneComponent(p) : p \in Payloads}
    /\ EngineInit
    /\ wIn = WaveIdle
    /\ wOut = WaveNone
    /\ dIn = DeploymentIdle
    /\ dOut = ReadyNone
    /\ gIn = GateIdle
    /\ gOut = GateNone
    /\ sIn = SortIdle
    /\ sOut = SortNone
    /\ rIn = DiscoverIdle
    /\ rOut = DiscoverNone
    /\ PairIdle

SpecKind == KindInit /\ [][Next]_vars

-----------------------------------------------------------------------------
(* The engine on a bundle of one component that carries a finalizer of another
   controller *)

\* another controller puts its finalizer on the bundle
OtherFinalizerAdded ==
    /\ bundle.exists
    /\ ~bundle.deleting
    /\ ~bundle.others
    /\ bundle' = [bundle EXCEPT !.others = TRUE]
    /\ stale' = TRUE
    /\ UNCHANGED <<spec, objs, pv, pc, appBundle, sortedGroups, gi, sortedComponents,
                   ci, groupStatus, obj, polls, pending, result, opLog,
                   readyTrue, failedAt, funcVars>>

\* the other controller removes its finalizer from the bundle marked for
\* deletion; the API server removes the bundle when no finalizer is left
OtherFinalizerRemoved ==
    /\ bundle.exists
    /\ bundle.deleting
    /\ bundle.others
    /\ bundle' = [bundle EXCEPT !.others = FALSE, !.exists = bundle.finalizer]
    /\ stale' = TRUE
    /\ UNCHANGED <<spec, objs, pv, pc, appBundle, sortedGroups, gi, sortedComponents,
                   ci, groupStatus, obj, polls, pending, result, opLog,
                   readyTrue, failedAt, funcVars>>

OthersNext ==
    \/ Next
    \/ OtherFinalizerAdded
    \/ OtherFinalizerRemoved

SpecOthers == KindInit /\ [][OthersNext]_vars

-----------------------------------------------------------------------------
(* The engine on a bundle of one component, in a cluster where other actors
   delete what it deployed *)

\* a user or another controller deletes an object a template produced
ObjectDeleted ==
    /\ \E id \in ObjIds :
          /\ objs[id].exists
          /\ objs' = [objs EXCEPT ![id] = NoObject]
    /\ UNCHANGED <<spec, bundle, pv, pc, appBundle, sortedGroups, gi, sortedComponents,
                   ci, groupStatus, obj, polls, pending, result, stale, opLog,
                   readyTrue, failedAt, funcVars>>

\* a user or another controller deletes the PackageVariant
PackageVariantDeleted ==
    /\ pv.exists
    /\ pv' = NoPackageVariant
    /\ UNCHANGED <<spec, bundle, objs, pc, appBundle, sortedGroups, gi,
                   sortedComponents, ci, groupStatus, obj, polls, pending, result,
                   stale, opLog, readyTrue, failedAt, funcVars>>

GoneNext ==
    \/ Next
    \/ ObjectDeleted
    \/ PackageVariantDeleted

SpecGone == KindInit /\ [][GoneNext]_vars

-----------------------------------------------------------------------------
(* The pipeline of a packaged component run on the resources of its package *)


\* a resource of the package before the pipeline
PackageResource(kind, name, ns) ==
    [kind |-> kind, name |-> name, namespace |-> ns, wave |-> <<>>,
     labels |-> NoLabels, gate |-> FALSE, script |-> NoScript]

PackageResources ==
    {PackageResource(kind, name, ns) :
        kind \in RolloutKinds \cup {"ConfigMap", "Service"},
        name \in {<<>>, <<"web">>}, ns \in {"", "prod"}}

\* the values of time.Now().Unix() % 100000 tried
Suffixes == {0, 99999}

GateInputs ==
    [items : UNION {[1..n -> PackageResources] : n \in 0..MaxResources},
     suffix : Suffixes]

GateInit ==
    /\ spec = OneComponent("pkg")
    /\ EngineInit
    /\ wIn = WaveIdle
    /\ wOut = WaveNone
    /\ dIn = DeploymentIdle
    /\ dOut = ReadyNone
    /\ gIn \in GateInputs
    /\ gOut = GateNone
    /\ sIn = SortIdle
    /\ sOut = SortNone
    /\ rIn = DiscoverIdle
    /\ rOut = DiscoverNone
    /\ PairIdle

\* the pipeline reconcileComponentWithPorch attaches to the PackageVariant of
\* the component, as Porch runs it
GatePipeline == Mutators(spec[1], spec[1].comps[1], gIn.suffix)

\* Porch renders the package through the pipeline
GateRender ==
    /\ ~gOut.done
    /\ gOut' = [done |-> TRUE, items |-> RunPipeline(GatePipeline, gIn.items)]
    /\ UNCHANGED <<engineVars, waveVars, readyVars, gIn, sortVars, discoverVars, pairVars>>

GateNext == GateRender

SpecGate == GateInit /\ [][GateNext]_vars

\* the package holds a workload the script builds a roll-out wait for
HasRolloutTarget(items) ==
    \E i \in 1..Len(items) :
        /\ items[i].kind \in RolloutKinds
        /\ items[i].name # <<>>
        /\ items[i].namespace # ""

-----------------------------------------------------------------------------
(* Two bundles of one component each, reconciled and finalized side by side *)

PairInit ==
    /\ spec = OneComponent("pkg")
    /\ EngineInit
    /\ wIn = WaveIdle
    /\ wOut = WaveNone
    /\ dIn = DeploymentIdle
    /\ dOut = ReadyNone
    /\ gIn = GateIdle
    /\ gOut = GateNone
    /\ sIn = SortIdle
    /\ sOut = SortNone
    /\ rIn = DiscoverIdle
    /\ rOut = DiscoverNone
    /\ pSpec \in [PairBundles -> Targets]
    /\ store = [t \in Targets |-> NoTarget]
    /\ wpc = [k \in PairBundles |-> "idle"]
    /\ wphase = [k \in PairBundles |-> ""]
    /\ wcall = [k \in PairBundles |-> <<>>]

\* the pass of bundle k ends with phase ph persisted
PairEnd(k, ph) ==
    /\ wpc' = [wpc EXCEPT ![k] = "done"]
    /\ wphase' = [wphase EXCEPT ![k] = ph]

\* the pass of bundle k issues the call op; rv is the resource version the
\* call reads (a probe) or carries (an update)
PairCall(k, op, found, rv) ==
    wcall' = [wcall EXCEPT ![k] = Append(@, [op |-> op, found |-> found, rv |-> rv])]

\* what the probe of the pass of bundle k returned
Probed(k) == wcall[k][1]

\* the API server accepts an update that carries the resource version seen
\* when the object still has that version
VersionMatchesAny(seen, current) == TRUE
VersionMatches(seen, current) == seen = current

\* r.Get by kind, name and namespace of the template's object, or by
\* "appbundle-<package>" of the PackageVariant: an existing PackageVariant is
\* left as it is, an existing object is updated, a missing one is created
PairProbe ==
    \E k \in PairBundles :
        /\ wpc[k] = "idle"
        /\ wpc' = [wpc EXCEPT ![k] =
                      IF ~store[pSpec[k]].exists THEN "create"
                      ELSE IF pSpec[k].packaged THEN "wait" ELSE "update"]
        /\ PairCall(k, "get", store[pSpec[k]].exists, store[pSpec[k]].rv)
        /\ UNCHANGED <<pSpec, store, wphase>>
        /\ UNCHANGED <<engineVars, waveVars, readyVars, gateVars, sortVars, discoverVars>>

\* r.Create: fails when the resource has appeared since the probe
PairCreate ==
    \E k \in PairBundles :
        /\ wpc[k] = "create"
        /\ PairCall(k, "create", FALSE, 0)
        /\ UNCHANGED pSpec
        /\ \E w \in (IF store[pSpec[k]].exists THEN {"error"} ELSE {"ok", "error"}) :
              IF w = "ok"
              THEN /\ store' = [store EXCEPT ![pSpec[k]] =
                                   [exists |-> TRUE, by |-> k, rv |-> @.rv + 1]]
                   /\ wpc' = [wpc EXCEPT ![k] = "wait"]
                   /\ UNCHANGED wphase
              ELSE UNCHANGED store /\ PairEnd(k, "Failed")
        /\ UNCHANGED <<engineVars, waveVars, readyVars, gateVars, sortVars, discoverVars>>

\* obj.SetResourceVersion(existingObj.GetResourceVersion()) and r.Update with
\* the labels of bundle k: fails when the object has gone or changed since
\* the probe, or in transit
PairUpdate ==
    \E k \in PairBundles :
        /\ wpc[k] = "update"
        /\ PairCall(k, "update", TRUE, Probed(k).rv)
        /\ UNCHANGED pSpec
        /\ \E w \in (IF /\ store[pSpec[k]].exists
                        /\ VersionMatches(Probed(k).rv, store[pSpec[k]].rv)
                     THEN {"ok", "error"} ELSE {"error"}) :
              IF w = "ok"
              THEN /\ store' = [store EXCEPT ![pSpec[k]].by = k,
                                             ![pSpec[k]].rv = @ + 1]
                   /\ wpc' = [wpc EXCEPT ![k] = "wait"]
                   /\ UNCHANGED wphase
              ELSE UNCHANGED store /\ PairEnd(k, "Failed")
        /\ UNCHANGED <<engineVars, waveVars, readyVars, gateVars, sortVars, discoverVars>>

\* the readiness wait: ready when the resource is there, a timeout when it
\* stays away
PairWait ==
    \E k \in PairBundles :
        /\ wpc[k] = "wait"
        /\ UNCHANGED <<pSpec, store, wcall>>
        /\ PairEnd(k, IF store[pSpec[k]].exists THEN "Deployed" ELSE "Failed")
        /\ UNCHANGED <<engineVars, waveVars, readyVars, gateVars, sortVars, discoverVars>>

\* the user deletes bundle k: the next pass finalizes it
PairUserDelete ==
    \E k \in PairBundles :
        /\ wpc[k] = "done"
        /\ wpc' = [wpc EXCEPT ![k] = "finalize"]
        /\ UNCHANGED <<pSpec, store, wphase, wcall>>
        /\ UNCHANGED <<engineVars, waveVars, readyVars, gateVars, sortVars, discoverVars>>

\* finalizeAppBundle: r.Delete of the PackageVariant or of the template's
\* object by name, not-found ignored, then the finalizer is removed
PairFinalize ==
    \E k \in PairBundles :
        /\ wpc[k] = "finalize"
        /\ store' = [store EXCEPT ![pSpec[k]] =
                        IF @.exists
                        THEN [exists |-> FALSE, by |-> "", rv |-> @.rv + 1]
                        ELSE @]
        /\ wpc' = [wpc EXCEPT ![k] = "gone"]
        /\ UNCHANGED <<pSpec, wphase, wcall>>
        /\ UNCHANGED <<engineVars, waveVars, readyVars, gateVars, sortVars, discoverVars>>

\* another actor of the cluster (the controller of the workload, a user)
\* writes to an object a template names
PairModify ==
    \E t \in Targets :
        /\ ~t.packaged
        /\ store[t].exists
        /\ store[t].rv < MaxVersion
        /\ store' = [store EXCEPT ![t].rv = @ + 1]
        /\ UNCHANGED <<pSpec, wpc, wphase, wcall>>
        /\ UNCHANGED <<engineVars, waveVars, readyVars, gateVars, sortVars, discoverVars>>

PairNext ==
    \/ PairProbe
    \/ PairCreate
    \/ PairUpdate
    \/ PairWait
    \/ PairUserDelete
    \/ PairFinalize
    \/ PairModify

SpecPair == PairInit /\ [][PairNext]_vars

\* C24 as stated: whatever the interleaving, a bundle whose pass ended
\* Deployed and that has not been deleted has its resource in the cluster,
\* carrying its own tracking labels, as after a pass that ran alone; in
\* particular the finalization of the other bundle has not removed it.
C24_AsStated ==
    \A k \in PairBundles :
        (wpc[k] = "done" /\ wphase[k] = "Deployed") =>
            /\ store[pSpec[k]].exists
            /\ store[pSpec[k]].by = k

-----------------------------------------------------------------------------
(* isDeploymentReady applied to a Deployment *)

\* the largest replica count and counter of the Deployments checked
MaxReplicas == 3

Fields == {FieldAbsent, FieldMalformed} \cup {FieldOf(n) : n \in 0..MaxReplicas}

Deployments ==
    [replicas : Fields, readyReplicas : Fields, updatedReplicas : Fields,
     availableReplicas : Fields]

ReadyInit ==
    /\ spec = MakeBundle(<<1>>, 0, <<0>>, <<0>>)
    /\ EngineInit
    /\ wIn = WaveIdle
    /\ wOut = WaveNone
    /\ dIn \in Deployments
    /\ dOut = ReadyNone
    /\ gIn = GateIdle
    /\ gOut = GateNone
    /\ sIn = SortIdle
    /\ sOut = SortNone
    /\ rIn = DiscoverIdle
    /\ rOut = DiscoverNone
    /\ PairIdle

\* the poll function of waitForResourceReady calls isDeploymentReady(current)
ReadyCompute ==
    /\ ~dOut.done
    /\ dOut' = [done |-> TRUE, ready |-> isDeploymentReady(dIn).ready,
                err |-> isDeploymentReady(dIn).err]
    /\ UNCHANGED <<engineVars, waveVars, dIn, gateVars, sortVars, discoverVars, pairVars>>

ReadyNext == ReadyCompute

SpecReady == ReadyInit /\ [][ReadyNext]_vars

\* spec.replicas, or 1 when unset
Desired(d) == IF d.replicas.found THEN d.replicas.value ELSE 1

\* the status counter f is the number n, a missing counter counting as 0
CounterIs(f, n) == f.typed /\ (IF f.found THEN f.value ELSE 0) = n

\* C18: isDeploymentReady returns true if and only if readyReplicas,
\* updatedReplicas and availableReplicas all equal the desired replica count,
\* which is spec.replicas or 1 when unset, a missing counter counting as 0; a
\* field that is not an integer equals no count.
C18_ReadyIffAllEqualDesired ==
    dOut.done =>
        (dOut.ready <=> /\ dIn.replicas.typed
                        /\ CounterIs(dIn.readyReplicas, Desired(dIn))
                        /\ CounterIs(dIn.updatedReplicas, Desired(dIn))
                        /\ CounterIs(dIn.availableReplicas, Desired(dIn)))

\* replicas = 3 with status {ready: 3, updated: 3, available: 2} is not ready
C18_Witness ==
    /\ dOut.done
    /\ dIn = [replicas |-> FieldOf(3), readyReplicas |-> FieldOf(3),
              updatedReplicas |-> FieldOf(3), availableReplicas |-> FieldOf(2)]
    /\ ~dOut.ready
    /\ ~dOut.err

-----------------------------------------------------------------------------
(* Sync-wave properties *)

\* C4: when group g1 has a smaller Order than group g2 and the component of g1
\* has an Order below 100, the wave of the component of g1 is strictly smaller
\* than the wave of any component of g2.
C4_WavesOrderedBelow100 ==
    (wOut.done /\ wIn.g1 < wIn.g2 /\ wIn.c1 < WaveBase) => wOut.w1 < wOut.w2

\* the last wave of group 0 against the first wave of group 1
C4_Witness ==
    /\ wOut.done
    /\ wIn = [g1 |-> 0, c1 |-> 99, g2 |-> 1, c2 |-> 0]
    /\ wOut.w1 = 99
    /\ wOut.w2 = 100

\* C4 as stated: the groups compared have one component each (fewer than 100),
\* whatever the Order of that component
C4_AsStated ==
    (wOut.done /\ wIn.g1 < wIn.g2) => wOut.w1 < wOut.w2

\* C5: the wave of the wait Job of group g1 is strictly greater than the wave of
\* a component of g1 whose Order is below 50, and strictly smaller than the wave
\* of any component of a group with a greater Order.
C5_WaitWaveBetween ==
    wOut.done =>
        /\ wIn.c1 < WaitOffset => wOut.w1 < wOut.wait1
        /\ wIn.g1 < wIn.g2 => wOut.wait1 < wOut.w2

\* the wait Job of group 1 after component 49 of group 1 and before component 0
\* of group 2
C5_Witness ==
    /\ wOut.done
    /\ wIn = [g1 |-> 1, c1 |-> 49, g2 |-> 2, c2 |-> 0]
    /\ wOut.w1 = 149
    /\ wOut.wait1 = 150
    /\ wOut.w2 = 200

\* C5 as stated: greater than the wave of every component of the same group
C5_AsStated ==
    wOut.done =>
        /\ wOut.w1 < wOut.wait1
        /\ wIn.g1 < wIn.g2 => wOut.wait1 < wOut.w2


-----------------------------------------------------------------------------
(* Ordering of the calls of one pass *)

\* the calls that write a component to the cluster
WriteOps == {"create", "update", "pvcreate"}

\* component c of group g has a Deployed status in the status built by this pass
DeployedInPass(g, c) ==
    \E i \in 1..Len(appBundle.status.groupStatuses) :
        LET gs == appBundle.status.groupStatuses[i]
        IN  /\ gs.name = g
            /\ \E j \in 1..Len(gs.componentStatuses) :
                   /\ gs.componentStatuses[j].name = c
                   /\ gs.componentStatuses[j].phase = "Deployed"

\* C1: a create, update or package-variant create has been issued in this pass
\* for a component of a group only if every component of every group with a
\* strictly smaller Order has a Deployed status from this pass.
C1_GroupsInOrder ==
    \A i \in 1..Len(opLog) :
        opLog[i].op \in WriteOps =>
            \A h \in 1..Len(spec) :
                spec[h].order < spec[opLog[i].g].order =>
                    \A c \in 1..Len(spec[h].comps) : DeployedInPass(h, c)

\* a write for the first group of the spec, which the sort moved behind a group
\* of two components
C1_Witness ==
    \E i \in 1..Len(opLog) :
        /\ opLog[i].op \in WriteOps
        /\ opLog[i].g = 1
        /\ Len(spec) = 2
        /\ spec[2].order < spec[1].order
        /\ Len(spec[2].comps) = 2

\* C2: once a component has failed in a pass, the pass issues no further
\* cluster call for any component.
C2_NoCallAfterFailure ==
    failedAt # -1 => Len(opLog) = failedAt

\* a pass that failed in its first group and returned, with a second group
\* left unprocessed
C2_Witness ==
    /\ failedAt # -1
    /\ pc = "idle"
    /\ result = "err"
    /\ Len(spec) = 2
    /\ Len(appBundle.status.groupStatuses) = 1
    /\ appBundle.status.groupStatuses[1].phase = "Failed"
    /\ \A i \in 1..Len(opLog) : opLog[i].g = appBundle.status.groupStatuses[1].name

\* C3: a create, update or package-variant create has been issued in this pass
\* for a component only if the readiness wait of every component of the same
\* group with a strictly smaller Order has returned ready in this pass.
C3_ComponentsInOrder ==
    \A i \in 1..Len(opLog) :
        opLog[i].op \in WriteOps =>
            LET g == opLog[i].g
            IN  \A c1 \in 1..Len(spec[g].comps) :
                    spec[g].comps[c1].order < spec[g].comps[opLog[i].c].order =>
                        <<g, c1>> \in readyTrue

\* a write for a component listed first, after the rollout of the Deployment
\* listed second with a smaller Order
C3_Witness ==
    \E i \in 1..Len(opLog) :
        LET g == opLog[i].g
        IN  /\ opLog[i].op \in WriteOps
            /\ opLog[i].c = 1
            /\ Len(spec[g].comps) = 2
            /\ spec[g].comps[2].order < spec[g].comps[1].order
            /\ spec[g].comps[2].payload = "dep"
            /\ <<g, 2>> \in readyTrue

-----------------------------------------------------------------------------
(* Ownership and finalization *)

\* C6 as stated: a cluster-scoped object in the cluster, such as the Namespace
\* whose manifest names no namespace, carries no owner reference to the bundle.
C6_AsStated ==
    \A id \in ObjIds :
        (objs[id].exists /\ Kind(id) \in ClusterScopedKinds) => ~objs[id].owner

\* the delete and package-variant delete calls of a pass
DeleteOps == {"delete", "pvdelete"}

\* the payload of the component a logged call was issued for
EntryPayload(e) == spec[e.g].comps[e.c].payload

\* the number of calls with an operation of ops logged for component c of group g
CallsFor(ops, g, c) ==
    Cardinality({i \in 1..Len(opLog) :
                    opLog[i].op \in ops /\ opLog[i].g = g /\ opLog[i].c = c})

TraversalComplete ==
    \A g \in 1..Len(spec) : \A c \in 1..Len(spec[g].comps) :
        LET p == spec[g].comps[c].payload
        IN  CallsFor(DeleteOps, g, c) = (IF IsPackaged(p) \/ Parses(p) THEN 1 ELSE 0)

\* C9: a pass that has started the cleanup traversal leaves it only when the
\* traversal is complete, whatever the deletes answer and whether or not the
\* manifests parse; it then tries to remove the finalizer token and returns
\* either no error with the bundle deleted, when that update succeeds, or the
\* error of the update with the bundle unchanged.
C9_CleanupBestEffort ==
    [][/\ (pc = "finalize" /\ pc' # pc) => (pc' = "removeFinalizer" /\ TraversalComplete')
       /\ (pc = "removeFinalizer" /\ pc' # pc) =>
             /\ pc' = "idle"
             /\ \/ result' = "ok" /\ ~bundle'.exists
                \/ result' = "err" /\ bundle' = bundle]_vars

\* a deletion pass that returned no error and removed the bundle although a
\* delete failed and a manifest did not parse
C9_Witness ==
    /\ pc = "idle"
    /\ result = "ok"
    /\ ~bundle.exists
    /\ \E i \in 1..Len(opLog) :
          opLog[i].op = "delete" /\ objs[EntryPayload(opLog[i])].exists
    /\ \E g \in 1..Len(spec) : \E c \in 1..Len(spec[g].comps) :
          spec[g].comps[c].payload = "bad"

\* C9 as stated: the deletion pass returns no error and the bundle is deleted
C9_AsStated ==
    [][((pc \in {"finalize", "removeFinalizer"}) /\ pc' = "idle") =>
          (result' = "ok" /\ ~bundle'.exists)]_vars

-----------------------------------------------------------------------------
(* Status aggregation *)

\* the status st has one Deployed group status per group of the spec and in it
\* one Deployed component status per component of the group
AllDeployed(st) ==
    /\ Len(st.groupStatuses) = Len(spec)
    /\ \A g \in 1..Len(spec) :
          \E i \in 1..Len(st.groupStatuses) :
              LET gs == st.groupStatuses[i]
              IN  /\ gs.name = g
                  /\ gs.phase = "Deployed"
                  /\ Len(gs.componentStatuses) = Len(spec[g].comps)
                  /\ \A c \in 1..Len(spec[g].comps) :
                         \E j \in 1..Len(gs.componentStatuses) :
                             /\ gs.componentStatuses[j].name = c
                             /\ gs.componentStatuses[j].phase = "Deployed"

\* C10: a pass is about to set phase Deployed, or a status in memory or in the
\* cluster has phase Deployed, only with one Deployed group status per group and
\* one Deployed component status per component.
C10_DeployedMeansAllDeployed ==
    /\ pc = "statusDeployed" => AllDeployed(appBundle.status)
    /\ appBundle.status.phase = "Deployed" => AllDeployed(appBundle.status)
    /\ bundle.status.phase = "Deployed" => AllDeployed(bundle.status)

\* a bundle of three components in two groups whose persisted phase is Deployed
C10_Witness ==
    /\ bundle.status.phase = "Deployed"
    /\ appBundle.status.phase = "Deployed"
    /\ Len(spec) = 2
    /\ Len(spec[2].comps) = 2
    /\ pc = "idle"
    /\ result = "ok"

-----------------------------------------------------------------------------
(* Failure propagation *)

\* the status st records a failure at all three levels: its last group status
\* is Failed and ends with a Failed component status that has a message, the
\* group message names that component and the error, and the bundle message is
\* the error
FailureAtAllLevels(st) ==
    /\ Len(st.groupStatuses) > 0
    /\ LET gs == st.groupStatuses[Len(st.groupStatuses)]
       IN  /\ gs.phase = "Failed"
           /\ Len(gs.componentStatuses) > 0
           /\ Len(st.message) = 1
           /\ LET cs == gs.componentStatuses[Len(gs.componentStatuses)]
              IN  /\ cs.phase = "Failed"
                  /\ Len(cs.message) > 0
                  /\ Len(cs.message) = 2 => cs.message[2] = st.message[1]
                  /\ gs.message = <<"Failed to deploy component", cs.name, st.message[1]>>

\* C11: a status with phase Failed, in the cluster or in the memory of the pass
\* that failed, has the failed component's phase Failed with a message, its
\* group's phase Failed with a message naming the component and the error, and
\* the error as the bundle's message.
C11_FailedAtAllLevels ==
    /\ bundle.status.phase = "Failed" => FailureAtAllLevels(bundle.status)
    /\ appBundle.status.phase = "Failed" => FailureAtAllLevels(appBundle.status)

\* a persisted status of a pass that deployed its first group and failed on a
\* template that does not parse in its second group
C11_Witness ==
    /\ bundle.status.phase = "Failed"
    /\ bundle.status.message = <<"parse error">>
    /\ Len(bundle.status.groupStatuses) = 2
    /\ bundle.status.groupStatuses[1].phase = "Deployed"
    /\ bundle.status.groupStatuses[2].componentStatuses[1].message =
          <<"Failed to parse template", "parse error">>

-----------------------------------------------------------------------------
(* Reconciling a Deployed bundle again *)

\* the statuses a and b have the same phase and the same group and component
\* statuses up to the messages
SameOutcome(a, b) ==
    /\ a.phase = b.phase
    /\ Len(a.groupStatuses) = Len(b.groupStatuses)
    /\ \A i \in 1..Len(a.groupStatuses) :
          LET ga == a.groupStatuses[i]
              gb == b.groupStatuses[i]
          IN  /\ ga.name = gb.name
              /\ ga.phase = gb.phase
              /\ Len(ga.componentStatuses) = Len(gb.componentStatuses)
              /\ \A j \in 1..Len(ga.componentStatuses) :
                    /\ ga.componentStatuses[j].name = gb.componentStatuses[j].name
                    /\ ga.componentStatuses[j].phase = gb.componentStatuses[j].phase
                    /\ ga.componentStatuses[j].ref = gb.componentStatuses[j].ref

\* C12: while the persisted status of the bundle is Deployed, a pass never
\* reaches a create of a resource or of the PackageVariant, and a pass that
\* succeeds again writes phase Deployed with the same group and component
\* statuses (names, phases and resource references).
C12_RedeployCreatesNothing ==
    [][bundle.status.phase = "Deployed" =>
          /\ pc' \notin {"create", "pvCreate"}
          /\ (pc = "statusDeployed" /\ bundle'.status # bundle.status) =>
                SameOutcome(bundle.status, bundle'.status)]_vars

\* a second pass over a Deployed bundle with a literal and a packaged component
\* that ended Deployed having issued an update and no create
C12_Witness ==
    /\ pc = "idle"
    /\ result = "ok"
    /\ bundle.status.phase = "Deployed"
    /\ \E i \in 1..Len(opLog) : opLog[i].op = "update"
    /\ \E i \in 1..Len(opLog) : opLog[i].op = "pvget"
    /\ \A i \in 1..Len(opLog) : opLog[i].op \notin {"create", "pvcreate"}

\* C12 as stated: a pass over a Deployed bundle ends with an unchanged status
C12_AsStated ==
    [][(bundle.status.phase = "Deployed" /\ pc \in {"statusDeployed", "statusErr"}
        /\ pc' = "idle") => bundle'.status = bundle.status]_vars

-----------------------------------------------------------------------------
(* The persisted status *)

\* C13: a pass that reaches the end of a deployment, Deployed or Failed, either
\* writes its outcome to the persisted status (phase Deployed, or phase Failed
\* with the failure recorded at all levels) or, when the status update fails,
\* returns an error and leaves the persisted bundle as it was.
C13_StatusWrittenOrError ==
    [][((pc \in {"statusDeployed", "statusErr"}) /\ pc' = "idle") =>
          \/ /\ bundle'.status = appBundle'.status
             /\ pc = "statusDeployed" => bundle'.status.phase = "Deployed"
             /\ pc = "statusErr" =>
                   (bundle'.status.phase = "Failed" /\ FailureAtAllLevels(bundle'.status))
          \/ /\ bundle' = bundle
             /\ result' = "err"]_vars

\* a persisted Failed status written by a pass that came after a pass that had
\* written Deployed
C13_Witness ==
    /\ pc = "idle"
    /\ bundle.status.phase = "Failed"
    /\ bundle.status = appBundle.status
    /\ bundle.status.observedGeneration = 1
    /\ failedAt # -1

\* C13 as stated: when a pass has ended Deployed or Failed the persisted status
\* is the status of that pass
C13_AsStated ==
    [][((pc \in {"statusDeployed", "statusErr"}) /\ pc' = "idle") =>
          bundle'.status = appBundle'.status]_vars

\* C14 as stated: the persisted phase of a bundle takes the value Deploying
\* between Pending and Deployed, so it never goes from Pending straight to
\* Deployed.
C14_AsStated ==
    [][~(bundle.status.phase = "Pending" /\ bundle'.status.phase = "Deployed")]_vars

\* C15: in the persisted status the Ready condition is True exactly when the
\* phase is Deployed and False exactly when the phase is Failed.
C15_ReadyMirrorsPhase ==
    /\ bundle.status.ready = "True" <=> bundle.status.phase = "Deployed"
    /\ bundle.status.ready = "False" <=> bundle.status.phase = "Failed"

\* a persisted status whose Ready condition went from True to False: a pass
\* wrote Failed after an earlier pass had written Deployed
C15_Witness ==
    /\ bundle.status.ready = "False"
    /\ bundle.status.phase = "Failed"
    /\ bundle.status.observedGeneration = bundle.generation
    /\ result = "err"

\* C16: the persisted observedGeneration changes only in the status update of
\* a pass that found every group Deployed, and that update sets it to the
\* generation of the bundle the pass read; the update of a failed pass leaves it
\* as it was.
C16_ObservedGeneration ==
    [][/\ bundle'.status.observedGeneration # bundle.status.observedGeneration =>
             (pc = "statusDeployed" /\ AllDeployed(bundle'.status))
       /\ (pc = "statusDeployed" /\ bundle'.status # bundle.status) =>
             bundle'.status.observedGeneration = appBundle.generation
       /\ pc = "statusErr" =>
             bundle'.status.observedGeneration = bundle.status.observedGeneration]_vars

\* a Failed status written for the edited bundle (generation 2) that still
\* carries the observedGeneration 1 of the deployment before the edit
C16_Witness ==
    /\ bundle.generation = 2
    /\ bundle.status.phase = "Failed"
    /\ bundle.status.observedGeneration = 1
    /\ appBundle.generation = 2
    /\ bundle.status = appBundle.status

-----------------------------------------------------------------------------
(* C17: what every written template object carries *)

\* the number a string of decimal digits denotes
RECURSIVE DecimalValue(_)
DecimalValue(d) ==
    IF Len(d) = 0 THEN 0
    ELSE 10 * DecimalValue(SubSeq(d, 1, Len(d) - 1)) + d[Len(d)]

\* d is the decimal string of n: its digits denote n and it has no leading zero
IsDecimalStringOf(d, n) ==
    /\ Len(d) >= 1
    /\ \A i \in 1..Len(d) : d[i] \in 0..9
    /\ Len(d) > 1 => d[1] # 0
    /\ DecimalValue(d) = n

\* C17: every object the engine has created or updated for a template
\* component carries the sync-wave annotation that is the decimal string of
\* group.Order * 100 + component.Order, the three tracking labels equal to
\* the names of the bundle, the group and the component, whatever the manifest
\* gave for those keys, and the bundle's namespace when the manifest names none.
C17_WrittenObjectCarries ==
    \A g \in 1..Len(spec) : \A c \in 1..Len(spec[g].comps) :
        LET comp == spec[g].comps[c]
            o == objs[comp.payload]
        IN  (comp.payload \in ObjIds /\ o.exists) =>
              /\ IsDecimalStringOf(o.wave, spec[g].order * 100 + comp.order)
              /\ o.labels = [appbundle |-> BundleName, group |-> spec[g].name,
                             component |-> comp.name]
              /\ ManifestNamespace(comp.payload) = "" => o.namespace = BundleNamespace
              /\ ManifestNamespace(comp.payload) # "" =>
                     o.namespace = ManifestNamespace(comp.payload)

\* Scenario A: a Namespace in the group of Order 0 and a Deployment of Order 0
\* in the group of Order 1 are written with waves "0" and "100", the
\* Deployment's own values for the tracking keys overridden.
C17_Witness ==
    /\ Len(spec) = 2
    /\ \E g \in 1..2 : spec[g].order = 0 /\ spec[g].comps[1].payload = "nsobj"
    /\ \E g \in 1..2 : /\ spec[g].order = 1
                       /\ spec[g].comps[1].payload = "dep"
                       /\ spec[g].comps[1].order = 0
    /\ objs["nsobj"].exists /\ objs["nsobj"].wave = <<0>>
    /\ objs["nsobj"].namespace = BundleNamespace
    /\ objs["dep"].exists /\ objs["dep"].wave = <<1, 0, 0>>
    /\ objs["dep"].labels.appbundle = BundleName
    /\ ManifestLabels("dep").appbundle # ""
    /\ \E i \in 1..Len(opLog) : opLog[i].op = "update"

-----------------------------------------------------------------------------
(* C19: a Job that completes or fails while the engine waits for it *)

\* the condition of type t of the Job o is True
JobConditionTrue(o, t) ==
    \E i \in 1..Len(JobConditionsOf(o)) :
        JobConditionsOf(o)[i] = [type |-> t, status |-> "True"]

\* the step is a poll of the wait for a Job that the Get can return
PollsJob ==
    /\ pc = "wait"
    /\ obj.kind = "Job"
    /\ objs[obj.id].exists
    /\ opLog' = Append(opLog, Entry("get", FALSE))

\* the poll that ran ended the wait with the component, its group and the
\* in-memory bundle status on the failure path, the poll count untouched
WaitFailedAtThisPoll ==
    /\ pc' = "statusErr"
    /\ polls' = polls
    /\ LET gs == appBundle'.status.groupStatuses[Len(appBundle'.status.groupStatuses)]
           cs == gs.componentStatuses[Len(gs.componentStatuses)]
       IN  /\ gs.phase = "Failed"
           /\ cs.name = CurComp.id
           /\ cs.phase = "Failed"
           /\ cs.message = <<"Resource not ready", pending'>>

\* C19: a poll that fetches a Job with a Complete=True condition ends the wait
\* with the component ready; a poll that fetches a Job with a Failed=True
\* condition ends the wait at that poll with the error "job failed", whatever
\* the number of polls so far, the component and its group are marked Failed,
\* and the pass then sets the bundle's phase to Failed without polling again.
\* (A poll whose Get fails ends the wait with the Get's error instead.)
C19_JobCompleteOrFailedEndsWait ==
    /\ [][(PollsJob /\ JobConditionTrue(objs[obj.id], "Complete")) =>
             \/ /\ pc' \in {"component", "statusDeployed"}
                /\ <<CurGroup.id, CurComp.id>> \in readyTrue'
             \/ pending' = "get failed" /\ WaitFailedAtThisPoll]_vars
    /\ [][(PollsJob /\ JobConditionTrue(objs[obj.id], "Failed")) =>
             /\ WaitFailedAtThisPoll
             /\ pending' \in {"job failed", "get failed"}]_vars
    /\ [][(pc = "statusErr" /\ pending = "job failed" /\ pc' # pc) =>
             /\ pc' = "idle"
             /\ opLog' = opLog
             /\ appBundle'.status.phase = "Failed"
             /\ appBundle'.status.message = <<"job failed">>]_vars

\* the Job failed before the first poll of the wait: the persisted status is
\* Failed with the Job's error and the wait never counted a poll
C19_Witness ==
    /\ objs["xjob"].exists
    /\ JobConditionTrue(objs["xjob"], "Failed")
    /\ polls = 0
    /\ pc = "idle"
    /\ bundle.status.phase = "Failed"
    /\ bundle.status.message = <<"job failed">>
    /\ appBundle.status = bundle.status

-----------------------------------------------------------------------------
(* C20: every readiness wait ends *)

\* the worker is inside a poll loop
WaitPcs == {"wait", "pvWait", "pvResourceWait"}

\* the step is a round of the poll loop of waitForResourceReady
PollsResource == pc = "wait" /\ opLog' = Append(opLog, Entry("get", FALSE))

\* what the poll function returns for the object in the cluster is (false, nil)
NotReadyYet ==
    ~objs[obj.id].exists \/ PollResult(obj.kind, objs[obj.id]) = "notready"

\* C20: a wait that has started ends; it runs at most MaxPolls rounds, each
\* round either ends the wait or counts one more poll; the wait for a
\* template's resource ends with the component ready or Failed with the error
\* of the poll or with the timeout; and a round that finds the resource not
\* ready when the window has elapsed ends the wait with the timeout error and
\* the component Failed with the message "Resource not ready: timeout".
C20_WaitTerminates ==
    /\ (pc \in WaitPcs) ~> (pc \notin WaitPcs)
    /\ [](polls < MaxPolls)
    /\ [][(pc \in WaitPcs /\ opLog' # opLog) =>
             (pc' # pc \/ polls' = polls + 1)]_vars
    /\ [][(PollsResource /\ pc' # "wait") =>
             \/ /\ pc' \in {"component", "statusDeployed"}
                /\ <<CurGroup.id, CurComp.id>> \in readyTrue'
             \/ /\ WaitFailedAtThisPoll
                /\ pending' \in {"job failed", "get failed", "timeout"}]_vars
    /\ [][(PollsResource /\ NotReadyYet /\ pending' # "get failed") =>
             IF WindowElapsed(polls + 1)
             THEN pending' = "timeout" /\ WaitFailedAtThisPoll
             ELSE pc' = "wait"]_vars

\* Scenario C: the Job never gained a Complete condition, the wait ran all its
\* rounds and the persisted status has the component Failed with the timeout
C20_Witness ==
    /\ objs["xjob"].exists
    /\ JobConditionsOf(objs["xjob"]) = <<>>
    /\ polls = MaxPolls - 1
    /\ pc = "idle"
    /\ bundle.status.phase = "Failed"
    /\ bundle.status.message = <<"timeout">>
    /\ bundle.status.groupStatuses[1].componentStatuses[1].message =
          <<"Resource not ready", "timeout">>

-----------------------------------------------------------------------------
(* C21: the wait for a resource of a kind without readiness check *)

\* the kind of the object waited for is neither immediately ready nor checked
UnknownKind(kind) == kind \notin ImmediatelyReadyKinds /\ kind \notin CheckedKinds

\* C21: a resource of a kind the wait has no case for is not returned at once:
\* after its write the wait enters the poll loop, every round reads the
\* resource from the cluster, the first round that finds it ends the wait with
\* the component ready whatever its state, a round that does not find it
\* counts as not ready (until the window has elapsed), and a round whose read
\* fails ends the wait with the component Failed.
C21_UnknownKindIsPolled ==
    /\ [][(/\ pc \in {"create", "update"}
            /\ UnknownKind(obj.kind)
            /\ opLog' # opLog
            /\ pc' # "statusErr") => pc' = "wait"]_vars
    /\ [][(PollsResource /\ UnknownKind(obj.kind)) =>
             \/ /\ objs[obj.id].exists
                /\ pc' \in {"component", "statusDeployed"}
                /\ <<CurGroup.id, CurComp.id>> \in readyTrue'
             \/ /\ ~objs[obj.id].exists
                /\ IF WindowElapsed(polls + 1)
                   THEN pending' = "timeout" /\ WaitFailedAtThisPoll
                   ELSE pc' = "wait" /\ polls' = polls + 1
             \/ pending' = "get failed" /\ WaitFailedAtThisPoll]_vars

\* the CronJob was written and the first read of the wait failed: the
\* persisted status has the component Failed with the read's error
C21_Witness ==
    /\ spec = OneComponent("cron")
    /\ objs["cron"].exists
    /\ pc = "idle"
    /\ polls = 0
    /\ bundle.status.phase = "Failed"
    /\ bundle.status.groupStatuses[1].componentStatuses[1].message =
          <<"Resource not ready", "get failed">>

\* C21 as stated: the wait for a resource of a kind outside the table returns
\* at once, so the worker is never in the poll loop for it
C21_AsStated == pc = "wait" => ~UnknownKind(obj.kind)

-----------------------------------------------------------------------------
(* C23: a packaged component and the Ready condition of its PackageVariant *)

\* the step is a round of the poll loop of waitForPackageVariantReady
PollsPackageVariant == pc = "pvWait" /\ opLog' = Append(opLog, Entry("pvget", FALSE))

\* the PackageVariant is in the cluster with a Ready=True condition
PackageVariantReady == pv.exists /\ pv.ready

\* the positions of a pass between "Deploy resources group by group" and its
\* status update
DeployPcs ==
    {"component", "create", "update", "wait", "pvCreate", "pvWait", "pvDiscover",
     "pvResourceWait", "statusDeployed", "statusErr"}

\* C23: a packaged component has a Deployed status in the status a pass builds
\* only if a poll of that pass returned ready for it, and such a poll returns
\* ready only when the PackageVariant is in the cluster with Ready=True; a poll
\* that finds the PackageVariant missing or not Ready when the window has
\* elapsed ends the wait with the component and its group Failed with the
\* message "PackageVariant not ready", and the pass then sets the bundle Failed.
C23_DeployedOnlyAfterReady ==
    /\ [](pc \in DeployPcs =>
            \A g \in 1..Len(spec) : \A c \in 1..Len(spec[g].comps) :
                (IsPackaged(spec[g].comps[c].payload) /\ DeployedInPass(g, c)) =>
                    <<g, c>> \in readyTrue)
    /\ [][(PollsPackageVariant /\ <<CurGroup.id, CurComp.id>> \in readyTrue') =>
             PackageVariantReady]_vars
    /\ [][(PollsPackageVariant /\ ~PackageVariantReady /\ WindowElapsed(polls + 1)) =>
             /\ pc' = "statusErr"
             /\ pending' \in {"timeout", "get failed"}
             /\ LET gs == appBundle'.status.groupStatuses[
                              Len(appBundle'.status.groupStatuses)]
                    cs == gs.componentStatuses[Len(gs.componentStatuses)]
                IN  /\ gs.phase = "Failed"
                    /\ cs.name = CurComp.id
                    /\ cs.phase = "Failed"
                    /\ cs.message = <<"PackageVariant not ready", pending'>>]_vars
    /\ [][(pc = "statusErr" /\ pending = "timeout" /\ pc' # pc) =>
             appBundle'.status.phase = "Failed"]_vars

\* a pass over a bundle whose second group holds the packaged component ended
\* Deployed after a poll saw the PackageVariant Ready
C23_Witness ==
    /\ Len(spec) = 2
    /\ IsPackaged(spec[2].comps[1].payload)
    /\ pc = "idle"
    /\ <<2, 1>> \in readyTrue
    /\ PackageVariantReady
    /\ bundle.status.phase = "Deployed"
    /\ appBundle.status = bundle.status

-----------------------------------------------------------------------------
(* C25: a component with neither template nor package reference *)

\* the component is the one written with neither a template nor a package
\* reference
HasNeither(p) == p = "none"

\* C25: the worker leaves a component that has neither a template nor a
\* package reference in one step that issues no cluster call and marks the
\* component Failed with the validation message and its group Failed; the pass
\* then sets the bundle Failed; and no call of any pass, deploying or
\* finalizing, is ever issued for such a component.
C25_NeitherIsValidationFailure ==
    /\ [][(pc = "component" /\ HasNeither(CurComp.payload) /\ pc' # pc) =>
             /\ pc' = "statusErr"
             /\ opLog' = opLog
             /\ objs' = objs /\ pv' = pv
             /\ LET gs == appBundle'.status.groupStatuses[
                              Len(appBundle'.status.groupStatuses)]
                    cs == gs.componentStatuses[Len(gs.componentStatuses)]
                IN  /\ gs.phase = "Failed"
                    /\ cs.name = CurComp.id
                    /\ cs.phase = "Failed"
                    /\ cs.message =
                         <<"Component must have either template or porchPackageRef specified">>]_vars
    /\ [][(/\ pc = "statusErr"
            /\ pending = "neither template nor porchPackageRef"
            /\ pc' # pc) => appBundle'.status.phase = "Failed"]_vars
    /\ [](\A i \in 1..Len(opLog) : ~HasNeither(EntryPayload(opLog[i])))

\* the pass over the bundle whose one component has neither ended with the
\* persisted phase Failed and no cluster call
C25_Witness ==
    /\ spec = OneComponent("none")
    /\ pc = "idle"
    /\ opLog = <<>>
    /\ bundle.finalizer
    /\ bundle.status.phase = "Failed"
    /\ bundle.status.message = <<"neither template nor porchPackageRef">>
    /\ bundle.status.groupStatuses[1].phase = "Failed"
    /\ bundle.status.groupStatuses[1].componentStatuses[1].phase = "Failed"

-----------------------------------------------------------------------------
(* C26: the bundle after a pass whose components all applied *)

\* C26: a pass deploys only a bundle that is not marked for deletion and
\* carries the finalizer; when all its components have applied, the pass
\* either writes its status, returns no error and leaves the persisted bundle
\* with the finalizer and phase Deployed, or fails to write its status,
\* returns the error and leaves the persisted bundle as it was.
C26_AfterSuccessfulPass ==
    /\ [](pc \in DeployPcs => (appBundle.finalizer /\ ~appBundle.deleting))
    /\ [][(pc = "statusDeployed" /\ pc' = "idle") =>
             \/ /\ result' = "ok"
                /\ bundle'.exists
                /\ bundle'.finalizer
                /\ bundle'.status.phase = "Deployed"
             \/ /\ result' = "err"
                /\ bundle' = bundle]_vars

\* the first pass over a bundle of one group ended without error: the bundle
\* has the finalizer and phase Deployed
C26_Witness ==
    /\ Len(spec) = 1
    /\ pc = "idle"
    /\ result = "ok"
    /\ ~bundle.deleting
    /\ bundle.finalizer
    /\ bundle.status.phase = "Deployed"
    /\ bundle.status.observedGeneration = bundle.generation

\* C26 as stated: every pass whose components all applied returns no error
\* and leaves the persisted bundle with the finalizer and a phase among
\* Pending, Deploying and Deployed
C26_AsStated ==
    [][(pc = "statusDeployed" /\ pc' = "idle") =>
          /\ result' = "ok"
          /\ bundle'.finalizer
          /\ bundle'.status.phase \in {"Pending", "Deploying", "Deployed"}]_vars

-----------------------------------------------------------------------------
(* C27 *)

\* elements of equal Order are in p in their input order
TiesInInputOrder(p) ==
    \A i \in 1..Len(p) : \A j \in (i + 1)..Len(p) :
        sIn[p[i]] = sIn[p[j]] => p[i] < p[j]

\* C27: in the order sort.Slice produces for the groups and for the
\* components, elements of equal Order keep their input order, for every
\* input list.
C27_AsStated ==
    sOut.done =>
        \A p \in {sOut.groups, sOut.components} : TiesInInputOrder(p)

-----------------------------------------------------------------------------
(* C28 *)

\* the component of bundle k is a literal template
Literal(k) == ~pSpec[k].packaged

\* the create and update calls the pass of bundle k issued
Writes(k) ==
    {i \in 1..Len(wcall[k]) : wcall[k][i].op \in {"create", "update"}}

\* the object bundle k names was created, modified or deleted by another
\* actor after the probe of the pass of k
ChangedSinceProbe(k) ==
    \/ ~Probed(k).found /\ store[pSpec[k]].exists
    \/ Probed(k).found /\ store[pSpec[k]].rv # Probed(k).rv

\* the pass of bundle k issues its write in this step
IssuesWrite(k) ==
    /\ Literal(k)
    /\ wcall'[k] # wcall[k]
    /\ Cardinality(Writes(k)) = 0
    /\ wcall[k] # <<>>

-----------------------------------------------------------------------------
(* C29 *)

\* the pass is at its final status write
FinalStatusWritePcs == {"statusDeployed", "statusErr"}

\* another writer writes the AppBundle while a pass is running
OtherWriterWrites == bundle' # bundle /\ pc' = pc /\ pc # "idle"

\* C29: a write to the AppBundle by another writer during a pass makes the
\* copy the pass read out of date; the final status write of a pass whose
\* copy is out of date changes nothing in the persisted AppBundle, which
\* keeps the other writer's version, and the pass returns an error in that
\* same step, without another attempt.
C29_StaleStatusWriteFails ==
    /\ [][OtherWriterWrites => stale']_vars
    /\ [][(pc \in FinalStatusWritePcs /\ pc' # pc /\ stale) =>
             /\ bundle' = bundle
             /\ pc' = "idle"
             /\ result' = "err"]_vars

\* the user edited the AppBundle during a pass whose components all
\* deployed: the pass returned an error, its copy says Deployed, and the
\* persisted AppBundle has the user's generation and no Deployed status
C29_Witness ==
    /\ pc = "idle"
    /\ result = "err"
    /\ stale
    /\ bundle.exists
    /\ bundle.generation > appBundle.generation
    /\ appBundle.status.phase = "Deployed"
    /\ bundle.status.phase # "Deployed"

-----------------------------------------------------------------------------
(* C30 *)

\* the step is a round of a poll loop whose r.Get cannot find the resource
PollsAbsent ==
    \/ PollsResource /\ ~objs[obj.id].exists
    \/ PollsPackageVariant /\ ~pv.exists

\* the worker is in the poll loop of a template's resource or of the
\* PackageVariant
ReadyWaitPcs == {"wait", "pvWait"}

\* C30: a round of a readiness poll that does not find the resource either
\* leaves the wait running with one more poll counted, or ends it with the
\* timeout because the window has elapsed, or ends it with another read
\* error; no wait ever ends with a not-found error.  A round that ends with a
\* read error ends the wait in that round, whatever the number of polls, with
\* the component Failed and that error carried to the status update.
C30_NotFoundKeepsPolling ==
    /\ [][PollsAbsent =>
             \/ /\ ~WindowElapsed(polls + 1)
                /\ pc' = pc
                /\ polls' = polls + 1
                /\ pending' = pending
             \/ /\ WindowElapsed(polls + 1)
                /\ pc' = "statusErr"
                /\ pending' = "timeout"
             \/ /\ pc' = "statusErr"
                /\ pending' = "get failed"]_vars
    /\ [](pending # "not found")
    /\ [][(pc \in ReadyWaitPcs /\ pending' = "get failed") =>
             /\ pc' = "statusErr"
             /\ polls' = polls
             /\ appBundle'.status.groupStatuses[Len(appBundle'.status.groupStatuses)].phase
                    = "Failed"]_vars

\* the object of a template, of a kind that is ready as soon as a poll
\* fetches it, was deleted during its wait, and a round of the poll that
\* could not find it has left the wait running
C30_Witness ==
    /\ pc = "wait"
    /\ obj.kind = "CronJob"
    /\ polls > 0
    /\ ~objs[obj.id].exists
    /\ opLog[Len(opLog)].op = "get"

-----------------------------------------------------------------------------
(* C31 *)

\* the positions of the post-processing of a packaged component whose
\* PackageVariant was confirmed Ready
PostProcessingPcs == {"pvDiscover", "pvResourceWait"}

\* the last component status reconcileGroup has recorded
LastComponentStatus(gs) == gs.componentStatuses[Len(gs.componentStatuses)]

\* C31: the post-processing of a packaged component runs only after its
\* PackageVariant was seen Ready in the pass, and every step that leaves it
\* (after a discovery error, an empty discovery, or a wait on a discovered or
\* template-named resource that ended ready, with a timeout, a failed Job or
\* a read error) records the component and its group Deployed, with no error
\* carried to the status update; the status such a pass computes for a bundle
\* of that one component is Deployed.
C31_PostProcessingNeverFails ==
    /\ [](pc \in PostProcessingPcs => <<CurGroup.id, CurComp.id>> \in readyTrue)
    /\ [][(pc \in PostProcessingPcs /\ pc' # pc) =>
             \/ pc' = "pvResourceWait"
             \/ /\ pc' = "statusDeployed"
                /\ groupStatus'.phase = "Deployed"
                /\ LastComponentStatus(groupStatus').phase = "Deployed"
                /\ LastComponentStatus(groupStatus').name = CurComp.id
                /\ pending' = pending
                /\ failedAt' = failedAt]_vars
    /\ []((pc = "idle" /\ readyTrue # {} /\ IsPackaged(spec[1].comps[1].payload)) =>
             /\ appBundle.status.phase = "Deployed"
             /\ pending = "")

\* a packaged component with a template has been waited on for the whole
\* window of its template's resource and is recorded Deployed with one
\* resource monitored
C31_Witness ==
    /\ pc = "statusDeployed"
    /\ MonitorsTemplate(spec[1].comps[1].payload)
    /\ Len(opLog) > 0
    /\ Len(opLog) >= MaxPolls
    /\ \A i \in (Len(opLog) - MaxPolls + 1)..Len(opLog) : opLog[i].op = "get"
    /\ LastComponentStatus(groupStatus).phase = "Deployed"
    /\ LastComponentStatus(groupStatus).message = PorchDeployedMessage(1)

-----------------------------------------------------------------------------
(* C32 *)

\* the PackageVariant reports a downstream target and a PackageRevision with
\* resources matches it
DiscoveryPossible ==
    /\ rIn.targets # "absent"
    /\ rIn.revision
    /\ rIn.found

\* C32: when the PackageVariant reports a downstream target with a matching
\* package-revision record, every resource the record lists that is not of an
\* infrastructure kind is among the resources the engine waits for before it
\* marks the component Deployed, and no resource of an infrastructure kind is.
C32_AsStated ==
    (rOut.done /\ DiscoveryPossible) =>
        /\ \A i \in 1..Len(rIn.resources) :
              ~isInfrastructureResource(rIn.resources[i].kind) =>
                  \E j \in 1..Len(rOut.monitored) : rOut.monitored[j] = rIn.resources[i]
        /\ \A j \in 1..Len(rOut.monitored) :
              ~isInfrastructureResource(rOut.monitored[j].kind)

-----------------------------------------------------------------------------
(* C33 *)

\* the operations of the pass so far that write a PackageVariant
PackageVariantWrites == {i \in 1..Len(opLog) : opLog[i].op \in {"pvcreate", "pvdelete"}}

\* C33: a pass that probes for the PackageVariant and finds it leaves it as it
\* is and goes on to the Ready poll (or fails on the probe's error); a create is
\* only ever issued for a PackageVariant that does not exist; no step of the
\* engine changes the spec, pipeline or annotations of an existing
\* PackageVariant; and a PackageVariant is deleted by no step other than one of
\* the cleanup traversal.
C33_ExistingRequestUntouched ==
    /\ [][(pc = "component" /\ IsPackaged(CurComp.payload) /\ pv.exists
           /\ opLog' = Append(opLog, Entry("pvget", FALSE))) =>
              /\ pv' = pv
              /\ pc' = "pvWait" \/ pending' = "get failed"]_vars
    /\ [](pc = "pvCreate" => ~pv.exists)
    /\ [][(pv.exists /\ pv'.exists) => [pv' EXCEPT !.ready = pv.ready] = pv]_vars
    /\ [][(pv.exists /\ ~pv'.exists) =>
              /\ pc = "finalize"
              /\ opLog' = Append(opLog, Entry("pvdelete", FALSE))]_vars

\* a pass found the PackageVariant of an earlier pass and is polling it for
\* Ready, having written nothing to it
C33_Witness ==
    /\ pc = "pvWait"
    /\ pv.exists
    /\ bundle.status.phase \in {"Deployed", "Failed"}
    /\ opLog # <<>>
    /\ opLog[Len(opLog)].op = "pvget"
    /\ PackageVariantWrites = {}

-----------------------------------------------------------------------------
(* C34 *)

\* the step is a delete of the cleanup traversal for the current component
CleanupDelete(op) ==
    /\ pc = "finalize"
    /\ Len(opLog') = Len(opLog) + 1
    /\ opLog'[Len(opLog')].op = op

\* C34: a delete of the cleanup traversal addresses the object the deployment
\* path wrote for that component: an existing PackageVariant is in the
\* namespace the delete names and an existing object of a template is in the
\* namespace the delete computes, so that a delete that is answered removes
\* it; and whatever the answer, not found included, the traversal goes on.
C34_FinalizeTargetsWhatWasWritten ==
    /\ [][CleanupDelete("pvdelete") =>
              /\ pv.exists => pv.namespace = FinalizePvNamespace
              /\ pv'.exists => pv' = pv
              /\ pc' \in {"finalize", "removeFinalizer"}]_vars
    /\ [][CleanupDelete("delete") =>
              LET id == CurComp.payload
              IN  /\ objs[id].exists => objs[id].namespace = FinalizeNamespace(id)
                  /\ objs'[id].exists => objs' = objs
                  /\ pc' \in {"finalize", "removeFinalizer"}]_vars

\* the traversal over a Deployed bundle has deleted the PackageVariant and the
\* Deployment whose manifest names no namespace
C34_Witness ==
    /\ pc \in {"finalize", "removeFinalizer"}
    /\ bundle.status.phase = "Deployed"
    /\ \E i \in 1..Len(opLog) : opLog[i].op = "pvdelete"
    /\ \E i \in 1..Len(opLog) : opLog[i].op = "delete" /\ EntryPayload(opLog[i]) = "dep"
    /\ ~pv.exists
    /\ ~objs["dep"].exists

-----------------------------------------------------------------------------
(* The engine re-invoked on a bundle whose spec stays as it is, whose manifests
   all parse, in a cluster whose calls fail only finitely often and whose
   workloads become ready and stay ready *)

\* two groups, three components: a Deployment, then a package and a Job
ConvergeBundles == {MakeBundle(<<1, 2>>, 1, <<0, 1>>, <<0, 0, 1>>)}

ConvergeInit ==
    /\ spec \in ConvergeBundles
    /\ EngineInit
    /\ wIn = WaveIdle
    /\ wOut = WaveNone
    /\ dIn = DeploymentIdle
    /\ dOut = ReadyNone
    /\ gIn = GateIdle
    /\ gOut = GateNone
    /\ sIn = SortIdle
    /\ sOut = SortNone
    /\ rIn = DiscoverIdle
    /\ rOut = DiscoverNone
    /\ PairIdle

\* a workload becomes ready: the Deployment rolls out, the Job completes
WorkloadBecomesReady ==
    /\ WorkloadProgress
    /\ \A id \in ObjIds : objs'[id].state # "failed"

\* the steps of a pass after its first
PassStep ==
    \/ AddFinalizer
    \/ InitStatus
    \/ ComponentGet
    \/ ComponentCreate
    \/ ComponentUpdate
    \/ WaitPoll
    \/ PorchGet
    \/ PorchCreate
    \/ PorchWaitPoll
    \/ PorchDiscover
    \/ PorchResourcePoll
    \/ UpdateStatusDeployed
    \/ UpdateStatusWithError

ConvergeNext ==
    \/ Reconcile
    \/ PassStep
    \/ WorkloadBecomesReady
    \/ PorchReady

\* the driver calls Reconcile again after a pass that returned an error, and
\* for the event of the bundle's creation
RetryPass ==
    /\ result # "ok"
    /\ Reconcile

\* a step in which a call to the cluster returns an error other than not found:
\* a read or write of a component's resource, the read of the bundle, or an
\* update of the bundle or of its status before the failure path
CallFails ==
    \/ /\ pc # "statusErr"
       /\ pc' = "statusErr"
       /\ pending' \in {"get failed", "create failed", "update failed"}
    \/ /\ pc \in {"idle", "addFinalizer", "initStatus", "statusDeployed"}
       /\ pc' = "idle"
       /\ result' = "err"

ConvergeFairness ==
    /\ WF_vars(RetryPass)
    /\ WF_vars(PassStep)
    /\ WF_vars(WorkloadBecomesReady)
    /\ WF_vars(PorchReady)
    /\ <>[][~CallFails]_vars

SpecConverge == ConvergeInit /\ [][ConvergeNext]_vars /\ ConvergeFairness

-----------------------------------------------------------------------------
(* C35 *)

\* C35: with the spec unchanged, every manifest parsing, the calls to the
\* cluster failing only finitely often and every workload becoming ready and
\* staying ready, the passes the driver repeats after an error bring the
\* persisted status to phase Deployed with Ready True, and it stays there.
C35_ConvergesToDeployed ==
    <>[](bundle.status.phase = "Deployed" /\ bundle.status.ready = "True")

\* a pass repeated after a failed one has gone through every group again and
\* is about to write Deployed over the Failed status
C35_Witness ==
    /\ pc = "statusDeployed"
    /\ bundle.status.phase = "Failed"
    /\ bundle.status.ready = "False"
    /\ \E i \in 1..Len(opLog) : opLog[i].op = "update"

-----------------------------------------------------------------------------
(* C36 *)

-----------------------------------------------------------------------------
(* C37 *)

\* a step of the pass, as opposed to a step of the cluster around it
PassActs == <<pc, opLog, gi, ci>>' # <<pc, opLog, gi, ci>>

-----------------------------------------------------------------------------
(* C38 *)

\* reconcileComponentWithPorch: packageVariantName and pvNamespace of the
\* packaged component of bundle k, fmt.Sprintf("appbundle-%s", PackageName)
\* and the namespace of the reference or "default"
PackageVariantKey(k) ==
    [name |-> <<"appbundle-", pSpec[k].name>>, namespace |-> PvNamespace]

\* C38 as stated: the passes of two bundles derive different PackageVariant
\* names for their packaged components, so that a pass that finds the PackageVariant and
\* skips the create has found the one its own bundle created, and the
\* PackageVariant of a bundle whose pass ended Deployed is not removed by the
\* finalization of the other bundle.
C38_AsStated ==
    \A k \in PairBundles : \A j \in PairBundles \ {k} :
        (pSpec[k].packaged /\ pSpec[j].packaged) =>
            /\ wpc[k] # "idle" => PackageVariantKey(k) # PackageVariantKey(j)
            /\ (wpc[k] \in {"wait", "done"} /\ Probed(k).found) =>
                   store[pSpec[k]].by = k
            /\ (wpc[k] = "done" /\ wphase[k] = "Deployed" /\ wpc[j] = "gone") =>
                   store[pSpec[k]].exists

-----------------------------------------------------------------------------
(* C39 *)

\* C39 as stated: the resource reference in the status of a packaged component
\* that ended Deployed names the PackageVariant the pass created or found and
\* polled: kind PackageVariant, its name, and the namespace it is in, which is
\* "default" when the package reference names none.
C39_AsStated ==
    \A g \in 1..Len(appBundle.status.groupStatuses) :
        LET css == appBundle.status.groupStatuses[g].componentStatuses
        IN  \A c \in 1..Len(css) :
                (css[c].phase = "Deployed" /\ css[c].ref.kind = "PackageVariant") =>
                    /\ pv.exists => css[c].ref.namespace = pv.namespace
                    /\ css[c].ref.namespace = PvNamespace

-----------------------------------------------------------------------------
(* C40 *)

\* the component statuses css list the first n components of group g in the
\* order of the deployment, all Deployed but the last when it failed
ListsComponents(css, g, n, failed) ==
    LET cs == ComponentsForDeploy(g)
    IN  /\ Len(css) = n
        /\ \A c \in 1..n :
              /\ css[c].name = cs[c].id
              /\ css[c].phase = IF failed /\ c = n THEN "Failed" ELSE "Deployed"
        /\ \A c \in 2..n : cs[c - 1].order <= cs[c].order

\* the group statuses gs list the groups up to the failing one, sortedGroups[gi],
\* and in it the components up to the failing one, sortedComponents[ci]
ListsUpToFailure(gs) ==
    /\ Len(gs) = gi
    /\ \A g \in 1..gi :
          /\ gs[g].name = sortedGroups[g].id
          /\ gs[g].phase = IF g = gi THEN "Failed" ELSE "Deployed"
          /\ IF g = gi
             THEN ListsComponents(gs[g].componentStatuses, sortedGroups[g].id, ci, TRUE)
             ELSE ListsComponents(gs[g].componentStatuses, sortedGroups[g].id,
                                  Len(spec[sortedGroups[g].id].comps), FALSE)
    /\ \A g \in 2..gi : sortedGroups[g - 1].order <= sortedGroups[g].order

\* C40: the status a failing pass is about to write, and the status stored
\* when its write is accepted, has phase Failed and lists exactly the groups up
\* to the failing one in ascending order, each earlier group Deployed with all
\* its components Deployed, the failing group Failed and last with its
\* components up to the failing one, which is Failed and last; so no later
\* group or component is listed, no entry is Pending or Deploying, and no
\* group status of the earlier pass is left.
C40_FailedStatusListsUpToFailure ==
    /\ [](pc = "statusErr" => ListsUpToFailure(appBundle.status.groupStatuses))
    /\ [][(pc = "statusErr" /\ bundle'.status # bundle.status) =>
              /\ bundle'.status.phase = "Failed"
              /\ bundle'.status.groupStatuses = appBundle.status.groupStatuses]_vars

\* a pass over a bundle whose earlier pass ended Deployed with two groups has
\* failed in its first group, after a component of that group was deployed
C40_Witness ==
    /\ pc = "statusErr"
    /\ bundle.status.phase = "Deployed"
    /\ Len(bundle.status.groupStatuses) = 2
    /\ gi = 1
    /\ ci = 2

====
